---- MODULE Spec2Model ----
(***************************************************************************)
(* The per-transaction execution engine of the flow-graph interpreter      *)
(* (Transaction, transaction.rs) together with the port buffers and the    *)
(* dispatch loop it runs in.                                               *)
(*                                                                         *)
(* The schematic of the model has three nodes and two connections:         *)
(*   <input>  in "input"   out "input"      <input>.input -> <output>.b    *)
(*   comp                  out "a", "c"     comp.a        -> <output>.a    *)
(*   <output> in "a", "b"                     with a default on the edge   *)
(* The <input> node's operation passes its packets through; comp is an     *)
(* arbitrary component: it emits any packets on its output port "a" and    *)
(* leaves its unconnected port "c" alone; its operation may fail.          *)
(***************************************************************************)
EXTENDS Integers, Sequences, FiniteSets, TLC

VARIABLES
  pc,          \* "new" after Transaction::new, "started" after Transaction::start
  ports,       \* the port buffers of every instance handler: status and queue
  channel,     \* the interpreter channel: events dispatched and not yet handled
  finished,    \* Transaction.finished
  output,      \* Transaction.output.0 is Some (the caller's response sender is held)
  response,    \* the packets sent on the caller's response stream so far
  started,     \* how often each instance has been started
  primer,      \* the input-priming task: "idle", "running", "ended"
  callerSent,  \* the items the caller's stream has delivered for an input-node port
  callerJunk,  \* the items the caller's stream has delivered for no port of the input node
  opIn,        \* per started instance, the stream of packets handed to its operation
  emitted,     \* the packets the component has emitted so far
  compEnded,   \* the component's output stream has ended
  stalls,      \* the stall checks run so far
  primed,      \* the packet the input-priming task handled in the last step, else NoPacket
  txState,     \* the TxState the last step's check_stalled returned, "ChannelSend" when
               \* the last step's handler returned that error, else "none"
  doneCount,   \* the Done events dispatched so far (history)
  doneSkipped, \* an emit_done call found the finished flag set (history)
  arrived,     \* per port, the packets accept_input/accept_output were given (history)
  dropped,     \* a packet was enqueued on a DoneClosed port (history)
  portLog,     \* the last single port operation: what it was given and what it found
  invocation,  \* the seed Transaction::new was given and the tx_id it set
  streams,     \* what the caller's and the component's stream have carried, each up to
               \* its done, and whether anything followed the done (history)
  validator,   \* the schematic model under validation and what the last call of each
               \* validation phase returned for it
  accepts,     \* per task, the accept_input/accept_output call it is in the middle of,
               \* and per port the buffer_in/buffer_out and dispatch_data calls made by
               \* the tasks so far (history)
  receiver,    \* the caller still holds the receiving end of the response stream
  rest,        \* the REST handler: the request it serves and what it has made of it
  cli          \* the Cli trigger: its oneshot channel, run and wait_for_done

vars == <<pc, ports, channel, finished, output, response, started, primer, callerSent,
          callerJunk, opIn, emitted, compEnded, stalls, primed, txState, doneCount, doneSkipped, arrived,
          dropped, portLog, invocation, streams, validator, accepts, receiver, rest, cli>>

\* the variables of the transaction
transaction ==
  <<pc, ports, channel, finished, output, response, started, primer, callerSent, callerJunk,
    opIn, emitted, compEnded, stalls, primed, txState, doneCount, doneSkipped, arrived,
    dropped, portLog, invocation, streams, accepts, receiver>>

(***************************************************************************)
(* Bounds of the model.                                                    *)
(***************************************************************************)
MaxIn == 1
MaxEmit == 2
MaxStall == 1
MaxQueue == 2
MaxConns == 2
MaxParams == 2
MaxResponse == 2

\* the caller's stream carries as many stray packets as packets for the input node
MaxJunk == MaxIn
\* the packets a probed port accepts over its life
MaxAccept == MaxQueue + 2

(***************************************************************************)
(* The schematic.                                                          *)
(***************************************************************************)
InputNode == "<input>"
SCHEMATIC_OUTPUT_INDEX == "<output>"
CompNode == "comp"

\* schematic.nodes(): one instance handler per node, in this order
Nodes == <<InputNode, SCHEMATIC_OUTPUT_INDEX, CompNode>>
NodeSet == {Nodes[i] : i \in 1..Len(Nodes)}

PortRef(n, d, name) == [node |-> n, dir |-> d, name |-> name]

InputsOf(n) ==
  CASE n = InputNode -> <<"input">>
    [] n = CompNode -> <<>>
    [] n = SCHEMATIC_OUTPUT_INDEX -> <<"a", "b">>

OutputsOf(n) ==
  CASE n = InputNode -> <<"input">>
    [] n = CompNode -> <<"a", "c">>
    [] n = SCHEMATIC_OUTPUT_INDEX -> <<>>

Range(s) == {s[i] : i \in 1..Len(s)}

InputPorts(n) == {PortRef(n, "In", name) : name \in Range(InputsOf(n))}
OutputPorts(n) == {PortRef(n, "Out", name) : name \in Range(OutputsOf(n))}
AllPorts == UNION {InputPorts(n) \cup OutputPorts(n) : n \in NodeSet}

(***************************************************************************)
(* Connections and their defaults.  A JSON value is a sequence of leaves;  *)
(* a leaf of a default may be the placeholder of the error message.        *)
(***************************************************************************)
ErrorPlaceholder == "$error"
NoValue == [some |-> FALSE, value |-> <<>>]
SomeValue(json) == [some |-> TRUE, value |-> json]

\* ConnectionDefinition { from, to, default }
ConnectionDefinition(from, to, default) == [from |-> from, to |-> to, default |-> default]

\* ConnectionDefinition::has_default
has_default(conn) == conn.default.some

\* the default's value with the error message in the place of every placeholder
process_default_value(json, err) ==
  [i \in 1..Len(json) |-> IF json[i] = ErrorPlaceholder THEN err ELSE json[i]]

\* process_default that hands the default back as it is written
process_default_literal(conn, err) ==
  IF ~conn.default.some
    THEN [ok |-> FALSE, error |-> "NoDefault", value |-> <<>>]
    ELSE [ok |-> TRUE, error |-> "", value |-> conn.default.value]

\* ConnectionDefinition::process_default
process_default(conn, err) ==
  IF ~conn.default.some
    THEN [ok |-> FALSE, error |-> "NoDefault", value |-> <<>>]
    ELSE [ok |-> TRUE, error |-> "", value |-> process_default_value(conn.default.value, err)]

\* the connections that leave an output port
Connections(p) ==
  CASE p = PortRef(InputNode, "Out", "input") ->
         <<ConnectionDefinition(p, PortRef(SCHEMATIC_OUTPUT_INDEX, "In", "b"), NoValue)>>
    [] p = PortRef(CompNode, "Out", "a") ->
         <<ConnectionDefinition(p, PortRef(SCHEMATIC_OUTPUT_INDEX, "In", "a"),
                                SomeValue(<<"fallback", ErrorPlaceholder>>))>>
    [] OTHER -> <<>>

AllConnections == UNION {Range(Connections(p)) : p \in AllPorts}

(***************************************************************************)
(* Packets and events.                                                     *)
(***************************************************************************)
Packet(port, kind, val) == [port |-> port, kind |-> kind, val |-> val]
is_done(p) == p.kind = "done"
is_noop(p) == p.kind = "noop"
is_error(p) == p.kind = "err"
set_port(p, name) == [p EXCEPT !.port = name]
DonePacket(name) == Packet(name, "done", <<>>)
\* Packet::raw_err
raw_err(name, err) == Packet(name, "err", <<err>>)
\* the message of an error packet
error_message(p) == p.val[1]

\* Packet::component_error("Transaction hung")
TransactionHung == Packet("<error>", "err", <<"Transaction hung">>)

\* the message of a failing operation
OpFailure == "boom"

\* the payload of the i-th packet a producer makes
CallerPayloads == <<"c1", "c2", "c3", "c4">>
CompPayloads == <<"p1", "p2", "p3", "p4">>
Payload(who, i) == IF who = "caller" THEN <<CallerPayloads[i]>> ELSE <<CompPayloads[i]>>

NoPort == PortRef("-", "-", "-")
NoPacket == Packet("-", "none", <<>>)
DataEvent(port) == [type |-> "Data", port |-> port, err |-> ""]
DoneEvent == [type |-> "Done", port |-> NoPort, err |-> ""]
OpErrEvent(n, err) == [type |-> "OpErr", port |-> PortRef(n, "-", "-"), err |-> err]

(***************************************************************************)
(* The port buffer: a status and a FIFO queue.                             *)
(***************************************************************************)
PortStatus == {"Open", "Closing", "DoneOpen", "DoneClosed"}
NewPort == [status |-> "Open", queue |-> <<>>]

\* Enqueue that does not look for DoneClosed first
buffer_into_closed(pb, pkt) ==
  IF is_done(pkt)
    THEN [pb EXCEPT !.status = IF pb.queue # <<>> THEN "DoneOpen" ELSE "DoneClosed"]
    ELSE [status |-> IF pb.status = "Closing" THEN "DoneOpen" ELSE pb.status,
          queue |-> Append(pb.queue, pkt)]

\* Enqueue that stores the done marker like any other packet
buffer_storing_done(pb, pkt) ==
  IF pb.status = "DoneClosed" THEN pb
  ELSE IF is_done(pkt)
    THEN [status |-> "DoneOpen", queue |-> Append(pb.queue, pkt)]
    ELSE [status |-> IF pb.status = "Closing" THEN "DoneOpen" ELSE pb.status,
          queue |-> Append(pb.queue, pkt)]

\* Enqueue that reopens the port for a packet that follows a done
buffer_reopening(pb, pkt) ==
  IF pb.status = "DoneClosed" THEN pb
  ELSE IF is_done(pkt)
    THEN [pb EXCEPT !.status = IF pb.queue # <<>> THEN "DoneOpen" ELSE "DoneClosed"]
    ELSE [status |-> "Open", queue |-> Append(pb.queue, pkt)]

\* Enqueue that puts the packet at the head of the queue
buffer_at_head(pb, pkt) ==
  IF pb.status = "DoneClosed" THEN pb
  ELSE IF is_done(pkt)
    THEN [pb EXCEPT !.status = IF pb.queue # <<>> THEN "DoneOpen" ELSE "DoneClosed"]
    ELSE [status |-> IF pb.status = "Closing" THEN "DoneOpen" ELSE pb.status,
          queue |-> <<pkt>> \o pb.queue]

\* Enqueue that closes the port at a done whatever the queue holds
buffer_closing_at_done(pb, pkt) ==
  IF pb.status = "DoneClosed" THEN pb
  ELSE IF is_done(pkt)
    THEN [pb EXCEPT !.status = "DoneClosed"]
    ELSE [status |-> IF pb.status = "Closing" THEN "DoneOpen" ELSE pb.status,
          queue |-> Append(pb.queue, pkt)]

\* Enqueue on one port buffer
buffer(pb, pkt) ==
  IF pb.status = "DoneClosed" THEN pb
  ELSE IF is_done(pkt)
    THEN [pb EXCEPT !.status = IF pb.queue # <<>> THEN "DoneOpen" ELSE "DoneClosed"]
    ELSE [status |-> IF pb.status = "Closing" THEN "DoneOpen" ELSE pb.status,
          queue |-> Append(pb.queue, pkt)]

\* Drain that closes a DoneOpen port while packets are still queued
take_packet_closing_early(pb) ==
  IF pb.queue = <<>> THEN pb
  ELSE [status |-> IF pb.status = "DoneOpen" THEN "DoneClosed" ELSE pb.status,
        queue |-> Tail(pb.queue)]

\* Drain of one port buffer: the buffer that is left
take_packet(pb) ==
  IF pb.queue = <<>> THEN pb
  ELSE [status |-> IF Tail(pb.queue) = <<>> /\ pb.status = "DoneOpen"
                     THEN "DoneClosed" ELSE pb.status,
        queue |-> Tail(pb.queue)]

\* a drain that returns the packet at the tail
taken_last(pb) == IF pb.queue = <<>> THEN <<>> ELSE <<pb.queue[Len(pb.queue)]>>

\* what a drain returns: the head packet as a sequence of at most one packet
taken(pb) == IF pb.queue = <<>> THEN <<>> ELSE <<Head(pb.queue)>>

is_empty(pb) == pb.queue = <<>>

buffer_in(ps, port, pkt) == [ps EXCEPT ![port] = buffer(@, pkt)]
buffer_out(ps, port, pkt) == [ps EXCEPT ![port] = buffer(@, pkt)]
take_input(ps, port) == [ps EXCEPT ![port] = take_packet(@)]
take_output(ps, port) == [ps EXCEPT ![port] = take_packet(@)]

\* InstanceHandler::take_packets: every packet buffered on the instance's inputs
RECURSIVE take_all(_)
take_all(pb) == IF pb.queue = <<>> THEN pb ELSE take_all(take_packet(pb))

RECURSIVE packets_of(_, _, _)
packets_of(ps, n, i) ==
  IF i > Len(InputsOf(n)) THEN <<>>
  ELSE ps[PortRef(n, "In", InputsOf(n)[i])].queue \o packets_of(ps, n, i + 1)

take_packets(ps, n) ==
  [p \in AllPorts |-> IF p \in InputPorts(n) THEN take_all(ps[p]) ELSE ps[p]]

(***************************************************************************)
(* The transaction.  The operators below work on a record of the fields a  *)
(* handler changes; an action applies one of them to the current state.    *)
(***************************************************************************)
Cur ==
  [ports |-> ports, channel |-> channel, finished |-> finished, response |-> response,
   doneCount |-> doneCount, doneSkipped |-> doneSkipped, arrived |-> arrived,
   dropped |-> dropped, failed |-> FALSE,
   buffered |-> accepts.buffered, dispatched |-> accepts.dispatched]

Apply(s) ==
  /\ ports' = s.ports
  /\ channel' = s.channel
  /\ finished' = s.finished
  /\ response' = s.response
  /\ doneCount' = s.doneCount
  /\ doneSkipped' = s.doneSkipped
  /\ arrived' = s.arrived
  /\ dropped' = s.dropped

output_handler == SCHEMATIC_OUTPUT_INDEX

\* done() with any() in the place of all()
done_any(ps) ==
  \E p \in InputPorts(output_handler) : ps[p].status = "DoneClosed" /\ is_empty(ps[p])

\* Transaction::done
done(ps) ==
  \A p \in InputPorts(output_handler) : ps[p].status = "DoneClosed" /\ is_empty(ps[p])

\* emit_done without the finished flag's guard
emit_done_unguarded(s) ==
  [s EXCEPT !.finished = TRUE,
            !.channel = Append(@, DoneEvent),
            !.doneCount = @ + 1]

\* Transaction::emit_done
emit_done(s) ==
  IF ~s.finished
    THEN [s EXCEPT !.finished = TRUE,
                   !.channel = Append(@, DoneEvent),
                   !.doneCount = @ + 1]
    ELSE [s EXCEPT !.doneSkipped = TRUE]

\* emit_output_message that puts the packets in front of the stream
emit_output_message_in_front(s, packets) ==
  IF output /\ packets # <<>> /\ ~receiver
    THEN [s EXCEPT !.failed = TRUE]
    ELSE LET sent == IF output THEN [s EXCEPT !.response = packets \o @] ELSE s
         IN IF done(sent.ports) THEN emit_done(sent) ELSE sent

\* emit_output_message that goes on to the done() test after a failed send
emit_output_message_despite_failure(s, packets) ==
  LET sent == IF output /\ receiver THEN [s EXCEPT !.response = @ \o packets]
              ELSE IF output /\ packets # <<>> THEN [s EXCEPT !.failed = TRUE]
              ELSE s
  IN IF done(sent.ports) THEN emit_done(sent) ELSE sent

\* Transaction::emit_output_message.  A send fails when the caller has dropped the
\* receiving end: the first send returns Err(ChannelSend) out of the call; `failed`
\* says so.
emit_output_message(s, packets) ==
  IF output /\ packets # <<>> /\ ~receiver
    THEN [s EXCEPT !.failed = TRUE]
    ELSE LET sent == IF output THEN [s EXCEPT !.response = @ \o packets] ELSE s
         IN IF done(sent.ports) THEN emit_done(sent) ELSE sent

\* Transaction::take_tx_output, then Transaction::handle_schematic_output
take_tx_output(ps) == packets_of(ps, output_handler, 1)

handle_schematic_output(s) ==
  emit_output_message([s EXCEPT !.ports = take_packets(@, output_handler)],
                      take_tx_output(s.ports))

\* accept_input and accept_output: buffer the packet, then dispatch a Data event
accept_input(s, port, pkt) ==
  [s EXCEPT !.ports = buffer_in(@, port, pkt),
            !.channel = Append(@, DataEvent(port)),
            !.arrived = @ \cup {port},
            !.dropped = @ \/ s.ports[port].status = "DoneClosed"]

accept_output(s, port, pkt) ==
  [s EXCEPT !.ports = buffer_out(@, port, pkt),
            !.channel = Append(@, DataEvent(port)),
            !.arrived = @ \cup {port},
            !.dropped = @ \/ s.ports[port].status = "DoneClosed"]

\* accept_output that dispatches the Data event before it buffers the packet
accept_output_at_dispatch_first(s, port, pkt, step) ==
  IF step = 1
    THEN [s EXCEPT !.channel = Append(@, DataEvent(port)),
                   !.dispatched[port] = @ + 1]
    ELSE [s EXCEPT !.ports = buffer_out(@, port, pkt),
                   !.arrived = @ \cup {port},
                   !.dropped = @ \/ s.ports[port].status = "DoneClosed",
                   !.buffered[port] = @ + 1]

\* accept_input and accept_output one statement at a time, as a task outside the
\* loop runs them: first instance.buffer_in / buffer_out, then, after whatever
\* the other tasks and the loop do meanwhile, channel.dispatch_data
accept_input_at(s, port, pkt, step) ==
  IF step = 1
    THEN [s EXCEPT !.ports = buffer_in(@, port, pkt),
                   !.arrived = @ \cup {port},
                   !.dropped = @ \/ s.ports[port].status = "DoneClosed",
                   !.buffered[port] = @ + 1]
    ELSE [s EXCEPT !.channel = Append(@, DataEvent(port)),
                   !.dispatched[port] = @ + 1]

accept_output_at(s, port, pkt, step) ==
  IF step = 1
    THEN [s EXCEPT !.ports = buffer_out(@, port, pkt),
                   !.arrived = @ \cup {port},
                   !.dropped = @ \/ s.ports[port].status = "DoneClosed",
                   !.buffered[port] = @ + 1]
    ELSE [s EXCEPT !.channel = Append(@, DataEvent(port)),
                   !.dispatched[port] = @ + 1]

\* accept_outputs that hands the packets over last one first
RECURSIVE accept_outputs_reversed(_, _, _)
accept_outputs_reversed(s, port, msgs) ==
  IF msgs = <<>> THEN s
  ELSE accept_output(accept_outputs_reversed(s, port, Tail(msgs)), port, Head(msgs))

\* accept_outputs: accept_output for every packet, in order
RECURSIVE accept_outputs(_, _, _)
accept_outputs(s, port, msgs) ==
  IF msgs = <<>> THEN s
  ELSE accept_outputs(accept_output(s, port, Head(msgs)), port, Tail(msgs))

\* Transaction::handle_op_err: the body of its loop, from the i-th output port on
RECURSIVE op_err_from(_, _, _, _)
op_err_from(s, index, err, i) ==
  IF i > Len(OutputsOf(index)) THEN s
  ELSE LET downport_name == OutputsOf(index)[i]
           port == PortRef(index, "Out", downport_name)
       IN op_err_from(accept_outputs(s, port, <<raw_err(downport_name, err),
                                               DonePacket(downport_name)>>),
                      index, err, i + 1)

handle_op_err(s, index, err) == op_err_from(s, index, err, 1)

(***************************************************************************)
(* Init: the transaction as Transaction::new leaves it.                    *)
(***************************************************************************)
(***************************************************************************)
(* The schematic validator.  A Result is a sequence: empty for Ok, the     *)
(* error alone for Err; an Option is a sequence of at most one element.    *)
(***************************************************************************)
SCHEMATIC_INPUT == "<input>"
SCHEMATIC_OUTPUT == "<output>"

\* ConnectionTargetDefinition: a port of an instance, or none
Target(instance, port) == <<instance, port>>
NoTarget == <<>>
is_none(target) == target = NoTarget
matches_reference(target, reference) == ~is_none(target) /\ target[1] = reference
matches_port(target, port) == ~is_none(target) /\ target[2] = port
get_reference(target) == IF is_none(target) THEN "<None>" ELSE target[1]

\* ComponentDefinition::new: the id is namespace::name, here the sequence of its parts
ComponentDefinition(namespace, name) ==
  [name |-> name, namespace |-> namespace, id |-> <<namespace, name>>]

\* parse_id: the namespace and the name of a fully qualified id
parse_id(id) ==
  IF Len(id) < 2 THEN <<>> ELSE <<[namespace |-> id[1], name |-> id[2]]>>

\* ComponentModel and ProviderModel, as commit_providers is given them; a port
\* signature is its name
ComponentModel(namespace, name, inputs, outputs) ==
  [namespace |-> namespace, name |-> name, inputs |-> inputs, outputs |-> outputs]
ProviderModel(namespace, components) == [namespace |-> namespace, components |-> components]

\* the errors of validation
ValidationError(kind, list) == [kind |-> kind, list |-> list]
EarlyError(name, results) == [kind |-> "EarlyError", list |-> results, name |-> name]
PostInitError(name, results) == [kind |-> "PostInitError", list |-> results, name |-> name]
Ok == <<>>
Err(e) == <<e>>
is_err(result) == result # Ok

\* what filter_map(Result::err).collect() keeps of a sequence of results
RECURSIVE filter_map_err(_)
filter_map_err(results) ==
  IF results = <<>> THEN <<>>
  ELSE Head(results) \o filter_map_err(Tail(results))

\* SchematicModel: the declared instances (reference and definition), the
\* connections, and the providers committed so far
SchematicModel(name, components, connections, providers) ==
  [name |-> name, components |-> components, connections |-> connections,
   providers |-> providers]

get_name(model) == model.name
get_connections(model) == model.connections
get_references(model) == [i \in 1..Len(model.components) |-> model.components[i].reference]
get_component_definitions(model) == [i \in 1..Len(model.components) |-> model.components[i].def]

get_component_definition(model, reference) ==
  LET found == SelectSeq(model.components, LAMBDA c : c.reference = reference)
  IN IF found = <<>> THEN <<>> ELSE <<found[1].def>>

get_component_model(model, id) ==
  LET parsed == parse_id(id)
      held == IF parsed = <<>> THEN {}
              ELSE UNION { {c \in provider.components : c.name = parsed[1].name} :
                             provider \in {p \in model.providers :
                                             p.namespace = parsed[1].namespace} }
  IN IF held = {} THEN <<>> ELSE <<CHOOSE c \in held : TRUE>>

\* Ok(model) or Err: the reference is not declared, or its model is not held
get_component_model_by_ref(model, reference) ==
  LET def == get_component_definition(model, reference)
      found == IF def = <<>> THEN <<>> ELSE get_component_model(model, def[1].id)
  IN [ok |-> found # <<>>,
      model |-> found,
      err |-> ValidationError("ModelError", <<reference>>)]

\* the ports of the schematic output that connections lead to, in connection order
get_schematic_outputs(model) ==
  LET into == SelectSeq(model.connections,
                        LAMBDA c : matches_reference(c.to, SCHEMATIC_OUTPUT))
  IN [i \in 1..Len(into) |-> into[i].to]

get_upstream_connection(model, port) ==
  LET into == SelectSeq(model.connections, LAMBDA c : c.to = port)
  IN IF into = <<>> THEN <<>> ELSE <<into[1]>>

get_upstream_connections_by_reference(model, reference) ==
  SelectSeq(model.connections, LAMBDA c : matches_reference(c.to, reference))

commit_providers(model, providers) ==
  [model EXCEPT !.providers = @ \cup Range(providers)]

\* Validator::new
Validator(model, omit_namespaces) == [model |-> model, omit_namespaces |-> omit_namespaces]

should_omit(ns, list) == \E i \in 1..Len(list) : list[i] = ns

should_omit_ref(self, reference) ==
  LET option == get_component_definition(self.model, reference)
  IN IF option = <<>> THEN FALSE ELSE should_omit(option[1].namespace, self.omit_namespaces)

\* should_omit_def that omits nothing
should_omit_def_never(self, def) == FALSE

should_omit_def(self, def) == should_omit(def.namespace, self.omit_namespaces)

\* Validator::assert_no_dangling_references: the closure's pushes for the
\* connections, in order
RECURSIVE dangling(_, _)
dangling(self, conns) ==
  IF conns = <<>> THEN <<>>
  ELSE LET conn == Head(conns)
           from == get_component_definition(self.model, get_reference(conn.from))
           to == get_component_definition(self.model, get_reference(conn.to))
           none_from == IF /\ from = <<>>
                           /\ ~has_default(conn)
                           /\ ~matches_reference(conn.from, SCHEMATIC_INPUT)
                          THEN <<get_reference(conn.from)>> ELSE <<>>
           none_to == IF to = <<>> /\ ~matches_reference(conn.to, SCHEMATIC_OUTPUT)
                        THEN <<get_reference(conn.to)>> ELSE <<>>
       IN none_from \o none_to \o dangling(self, Tail(conns))

assert_no_dangling_references(self) ==
  LET names == dangling(self, get_connections(self.model))
  IN IF names = <<>> THEN Ok ELSE Err(ValidationError("DanglingReference", names))

\* is_valid_input that looks for the port among the outputs
is_valid_input_among_outputs(connection, to) ==
  IF \E i \in 1..Len(to.outputs) : matches_port(connection.to, to.outputs[i])
    THEN Ok
    ELSE Err(ValidationError("InvalidInputPort", <<connection.to, connection, to.inputs>>))

is_valid_input(connection, to) ==
  IF \E i \in 1..Len(to.inputs) : matches_port(connection.to, to.inputs[i])
    THEN Ok
    ELSE Err(ValidationError("InvalidInputPort", <<connection.to, connection, to.inputs>>))

is_valid_output(connection, from) ==
  IF \E i \in 1..Len(from.outputs) : matches_port(connection.from, from.outputs[i])
    THEN Ok
    ELSE Err(ValidationError("InvalidOutputPort",
                             <<connection.from, connection, from.outputs>>))

\* Validator::assert_ports_used: the errors of the closure's validations for the
\* connections, in order
RECURSIVE port_errors(_, _)
port_errors(self, conns) ==
  IF conns = <<>> THEN <<>>
  ELSE LET connection == Head(conns)
           rf == get_reference(connection.from)
           from == get_component_model_by_ref(self.model, rf)
           of_from ==
             IF matches_reference(connection.from, SCHEMATIC_INPUT) THEN Ok
             ELSE IF from.ok THEN is_valid_output(connection, from.model[1])
             ELSE IF ~has_default(connection) /\ ~should_omit_ref(self, rf)
               THEN Err(from.err)
             ELSE Ok
           rt == get_reference(connection.to)
           to == get_component_model_by_ref(self.model, rt)
           of_to ==
             IF matches_reference(connection.to, SCHEMATIC_OUTPUT) THEN Ok
             ELSE IF to.ok THEN is_valid_input(connection, to.model[1])
             ELSE IF ~should_omit_ref(self, rt) THEN Err(to.err)
             ELSE Ok
       IN of_from \o of_to \o port_errors(self, Tail(conns))

assert_ports_used(self) ==
  LET errors == port_errors(self, get_connections(self.model))
  IN IF errors = <<>> THEN Ok ELSE Err(ValidationError("InvalidConnections", errors))

\* Validator::assert_component_models: "reference=>id" for every reference kept
RECURSIVE missing_components(_, _)
missing_components(self, refs) ==
  IF refs = <<>> THEN <<>>
  ELSE LET r == Head(refs)
           def == get_component_definition(self.model, r)[1]
           model == get_component_model(self.model, def.id)
       IN (IF model = <<>> /\ ~should_omit_def(self, def)
             THEN <<<<r, "=>", def.id>>>> ELSE <<>>)
          \o missing_components(self, Tail(refs))

assert_component_models(self) ==
  LET missing == missing_components(self, get_references(self.model))
  IN IF missing = <<>> THEN Ok
     ELSE Err(ValidationError("MissingComponentModels", missing))

assert_early_schematic_outputs(self) ==
  IF get_schematic_outputs(self.model) = <<>>
    THEN Err(ValidationError("NoOutputs", <<>>))
    ELSE Ok

\* Validator::validate_port_has_upstream_input: "true", "false", or "overflow"
\* when the recursion comes back to a port it is still working on and so never
\* returns.  The second operator is the for loop over the upstream connections.
RECURSIVE validate_port_has_upstream_input(_, _, _)
RECURSIVE any_upstream_input(_, _, _)
validate_port_has_upstream_input(self, port, stack) ==
  LET option == get_upstream_connection(self.model, port)
  IN IF option = <<>> THEN "false"
     ELSE LET connection == option[1]
              connected_to_schematic_input ==
                matches_reference(connection.from, SCHEMATIC_INPUT)
              with_default == is_none(connection.from) /\ has_default(connection)
          IN IF connected_to_schematic_input \/ with_default THEN "true"
             ELSE IF port \in stack THEN "overflow"
             ELSE any_upstream_input(
                    self,
                    get_upstream_connections_by_reference(
                      self.model, get_reference(connection.from)),
                    stack \cup {port})

any_upstream_input(self, upstream_connections, stack) ==
  IF upstream_connections = <<>> THEN "false"
  ELSE LET found == validate_port_has_upstream_input(
                      self, Head(upstream_connections).to, stack)
       IN IF found = "false"
            THEN any_upstream_input(self, Tail(upstream_connections), stack)
            ELSE found

\* the stack overflows: the call does not return
StackOverflow == ValidationError("(stack overflow)", <<>>)

\* Validator::assert_early_schematic_inputs: its loop over the ports
RECURSIVE early_schematic_inputs(_, _)
early_schematic_inputs(self, outs) ==
  IF outs = <<>> THEN Ok
  ELSE LET found == validate_port_has_upstream_input(self, Head(outs), {})
       IN IF found = "overflow" THEN Err(StackOverflow)
          ELSE IF found = "false" THEN Err(ValidationError("NoInputs", <<>>))
          ELSE early_schematic_inputs(self, Tail(outs))

assert_early_schematic_inputs(self) ==
  early_schematic_inputs(self, get_schematic_outputs(self.model))

RECURSIVE unqualified(_)
unqualified(defs) ==
  IF defs = <<>> THEN <<>>
  ELSE (IF parse_id(Head(defs).id) = <<>> THEN <<Head(defs).id>> ELSE <<>>)
       \o unqualified(Tail(defs))

assert_early_qualified_names(self) ==
  LET errors == unqualified(get_component_definitions(self.model))
  IN IF errors = <<>> THEN Ok ELSE Err(ValidationError("NotFullyQualified", errors))

\* validate_early_errors that returns at the first failing check
validate_early_errors_first(model) ==
  LET self == Validator(model, <<"self">>)
      inputs == assert_early_schematic_inputs(self)
      results == filter_map_err(<<inputs,
                                  assert_early_schematic_outputs(self),
                                  assert_early_qualified_names(self),
                                  assert_no_dangling_references(self)>>)
  IN IF inputs = Err(StackOverflow) THEN inputs
     ELSE IF results = <<>> THEN Ok
     ELSE Err(EarlyError(get_name(model), <<results[1]>>))

validate_early_errors(model) ==
  LET self == Validator(model, <<"self">>)
      inputs == assert_early_schematic_inputs(self)
      results == filter_map_err(<<inputs,
                                  assert_early_schematic_outputs(self),
                                  assert_early_qualified_names(self),
                                  assert_no_dangling_references(self)>>)
  IN IF inputs = Err(StackOverflow) THEN inputs
     ELSE IF results = <<>> THEN Ok
     ELSE Err(EarlyError(get_name(model), results))

validate_late_errors(model) ==
  LET self == Validator(model, <<"self">>)
      results == filter_map_err(<<assert_component_models(self), assert_ports_used(self)>>)
  IN IF results = <<>> THEN Ok ELSE Err(PostInitError(get_name(model), results))

\* validate_final_errors that leaves the connections unchecked
validate_final_errors_models_only(model) ==
  LET self == Validator(model, <<>>)
      results == filter_map_err(<<assert_component_models(self)>>)
  IN IF results = <<>> THEN Ok ELSE Err(PostInitError(get_name(model), results))

validate_final_errors(model) ==
  LET self == Validator(model, <<>>)
      results == filter_map_err(<<assert_component_models(self), assert_ports_used(self)>>)
  IN IF results = <<>> THEN Ok ELSE Err(PostInitError(get_name(model), results))

\* no call of the phase yet
NotRun == <<ValidationError("(not run)", <<>>)>>

\* no schematic is being validated
NoValidator ==
  [model |-> SchematicModel("-", <<>>, <<>>, {}),
   early |-> NotRun, late |-> NotRun, final |-> NotRun]

\* the seeds a transaction may be made with
Seeds == {7, 11}
DefaultSeed == 7

\* Random::from_seed(seed).uuid(): the first draw of the seeded generator
uuid(seed) == (seed * 75 + 74) % 65537

\* nothing follows the done of the stream
EndsAtDone(stream) == \A i \in 1..Len(stream) : is_done(stream[i]) => i = Len(stream)

\* the history of a stream that goes on with one more packet: after the done, a
\* mark that something followed it
carried(stream, pkt) ==
  IF stream = <<>> \/ ~is_done(stream[Len(stream)])
    THEN IF EndsAtDone(stream) THEN Append(stream, pkt) ELSE stream
    ELSE Append(stream, NoPacket)

NoStreams == [caller |-> <<>>, comp |-> <<>>]

NoLog ==
  [op |-> "none", conn |-> ConnectionDefinition(NoPort, NoPort, NoValue),
   sent |-> DonePacket("-"), pkt |-> DonePacket("-"), before |-> NewPort, got |-> <<>>,
   accepted |-> <<>>, drained |-> <<>>]

\* the tasks that call accept_input and accept_output outside the loop: the
\* input-priming task and the consumer of the component's output stream
Tasks == {"primer", CompNode}
TaskPorts == {PortRef(InputNode, "In", "input"), PortRef(CompNode, "Out", "a")}

NoAccepts ==
  [pending |-> [t \in Tasks |-> <<>>],
   buffered |-> [p \in TaskPorts |-> 0],
   dispatched |-> [p \in TaskPorts |-> 0]]

\* no request is being served
NoRequest ==
  [request |-> [method |-> "-", path_params |-> <<>>, query_params |-> <<>>, body |-> "-"],
   packets |-> <<>>, result |-> "none"]

\* no Cli trigger has been loaded
NoCli ==
  [pc |-> "-", kind |-> "-", args |-> <<>>, left |-> 0, done_tx |-> "-", done_rx |-> "-",
   chan |-> "-", waiter |-> "-", result |-> "none"]

\* nothing but the transaction is there
Idle == validator = NoValidator /\ rest = NoRequest /\ cli = NoCli

new(seed) ==
  /\ pc = "new"
  /\ ports = [p \in AllPorts |-> NewPort]
  /\ channel = <<>>
  /\ finished = FALSE
  /\ output = TRUE
  /\ response = <<>>
  /\ started = [n \in NodeSet |-> 0]
  /\ primer = "idle"
  /\ callerSent = 0
  /\ callerJunk = 0
  /\ opIn = [n \in NodeSet |-> <<>>]
  /\ emitted = 0
  /\ compEnded = FALSE
  /\ stalls = 0
  /\ txState = "none"
  /\ primed = NoPacket
  /\ doneCount = 0
  /\ doneSkipped = FALSE
  /\ arrived = {}
  /\ dropped = FALSE
  /\ portLog = NoLog
  /\ invocation = [seed |-> seed, tx_id |-> uuid(seed)]
  /\ streams = NoStreams
  /\ accepts = NoAccepts
  /\ receiver = TRUE

Init == new(DefaultSeed) /\ Idle

(***************************************************************************)
(* Transaction::start: every instance but the schematic output is started, *)
(* then the input-priming task is spawned.                                 *)
(***************************************************************************)
\* start that does not skip the schematic output
start_output_too ==
  /\ pc = "new"
  /\ pc' = "started"
  /\ started' = [n \in NodeSet |-> started[n] + 1]
  /\ primer' = "running"
  /\ txState' = "none"
  /\ primed' = NoPacket
  /\ UNCHANGED <<ports, channel, finished, output, response, callerSent, callerJunk, opIn, emitted, compEnded,
                 stalls, doneCount, doneSkipped, arrived, dropped, portLog>>
  /\ UNCHANGED <<invocation, streams, validator, accepts, receiver, rest, cli>>

\* start that skips the schematic input in the place of the schematic output
start_skip_input ==
  /\ pc = "new"
  /\ pc' = "started"
  /\ started' = [n \in NodeSet |-> IF n = InputNode THEN started[n] ELSE started[n] + 1]
  /\ primer' = "running"
  /\ txState' = "none"
  /\ primed' = NoPacket
  /\ UNCHANGED <<ports, channel, finished, output, response, callerSent, callerJunk, opIn, emitted, compEnded,
                 stalls, doneCount, doneSkipped, arrived, dropped, portLog>>
  /\ UNCHANGED <<invocation, streams, validator, accepts, receiver, rest, cli>>

start ==
  /\ pc = "new"
  /\ pc' = "started"
  /\ started' = [n \in NodeSet |->
                   IF n = SCHEMATIC_OUTPUT_INDEX THEN started[n] ELSE started[n] + 1]
  /\ primer' = "running"
  /\ txState' = "none"
  /\ primed' = NoPacket
  /\ UNCHANGED <<ports, channel, finished, output, response, callerSent, callerJunk, opIn, emitted, compEnded,
                 stalls, doneCount, doneSkipped, arrived, dropped, portLog>>
  /\ UNCHANGED <<invocation, streams, validator, accepts, receiver, rest, cli>>

(***************************************************************************)
(* The input-priming task spawned by Transaction::prime_input_ports: one   *)
(* iteration of its loop over the caller's stream.                         *)
(***************************************************************************)
\* the packets the caller's stream may deliver for the input node's port
CallerPackets(i) ==
  { Packet("input", "ok", Payload("caller", i)),
    DonePacket("input") }

\* the packets the caller's stream may deliver for a port the input node has not
StrayPackets == { Packet("nope", "ok", <<"stray">>), Packet("nope", "noop", <<>>) }

\* the noop packets the caller's stream may deliver for the input node's port
NoopPackets == { Packet("input", "noop", <<>>) }

\* InstanceHandler::find_input on the schematic-input node
find_input(name) == name \in Range(InputsOf(InputNode))

\* the loop's body placing the packet on a port of the schematic output
prime_packet_on_output(s, packet) ==
  IF find_input(packet.port)
    THEN accept_input(s, PortRef(SCHEMATIC_OUTPUT_INDEX, "In", "b"), packet)
    ELSE s

\* the body of the task's loop for one packet of the stream
prime_packet(s, packet) ==
  IF find_input(packet.port)
    THEN accept_input(s, PortRef(InputNode, "In", packet.port), packet)
    ELSE s

\* the task's loop on a stream of packets for the input node's port
prime_input_ports ==
  /\ primer = "running"
  /\ txState' = "none"
  /\ \/ \* the stream ends: payloads.next() is None
        /\ primer' = "ended"
        /\ primed' = NoPacket
        /\ Apply(Cur)
        /\ UNCHANGED <<callerSent, streams>>
     \/ \* Some(Ok(packet))
        /\ callerSent < MaxIn
        /\ callerSent' = callerSent + 1
        /\ primer' = primer
        /\ \E packet \in CallerPackets(callerSent + 1) :
             /\ Apply(prime_packet(Cur, packet))
             /\ primed' = packet
             /\ streams' = [streams EXCEPT !.caller = carried(@, packet)]
  /\ UNCHANGED <<pc, output, started, callerJunk, opIn, emitted, compEnded, stalls, portLog>>
  /\ UNCHANGED <<invocation, validator, accepts, receiver, rest, cli>>

\* an Err item of the caller's stream
ErrItem == [port |-> "-", kind |-> "Err", val |-> <<>>]

\* the task reading on past an Err item
prime_stream_err_skipping ==
  /\ primer = "running"
  /\ txState' = "none"
  /\ primer' = primer
  /\ primed' = ErrItem
  /\ streams' = [streams EXCEPT !.caller = Append(@, ErrItem)]
  /\ Apply(Cur)
  /\ UNCHANGED <<pc, output, started, callerSent, callerJunk, opIn, emitted, compEnded, stalls,
                 portLog>>
  /\ UNCHANGED <<invocation, validator, accepts, receiver, rest, cli>>

\* the task's loop on an Err item of the stream: `while let Some(Ok(packet))` does
\* not match, the loop is left and the task ends
prime_stream_err ==
  /\ primer = "running"
  /\ txState' = "none"
  /\ primer' = "ended"
  /\ primed' = ErrItem
  /\ streams' = [streams EXCEPT !.caller = Append(@, ErrItem)]
  /\ Apply(Cur)
  /\ UNCHANGED <<pc, output, started, callerSent, callerJunk, opIn, emitted, compEnded, stalls,
                 portLog>>
  /\ UNCHANGED <<invocation, validator, accepts, receiver, rest, cli>>

\* the task ending at the first packet it does not place
prime_other_packets_stopping ==
  /\ primer = "running"
  /\ txState' = "none"
  /\ primer' = "ended"
  /\ \/ /\ callerJunk < MaxJunk
        /\ callerJunk' = callerJunk + 1
        /\ \E packet \in StrayPackets :
             /\ Apply(prime_packet(Cur, packet))
             /\ primed' = packet
        /\ UNCHANGED callerSent
     \/ /\ callerSent < MaxIn
        /\ callerSent' = callerSent + 1
        /\ \E packet \in NoopPackets :
             /\ Apply(prime_packet(Cur, packet))
             /\ primed' = packet
        /\ UNCHANGED callerJunk
  /\ UNCHANGED <<pc, output, started, opIn, emitted, compEnded, stalls, portLog>>
  /\ UNCHANGED <<invocation, streams, validator, accepts, receiver, rest, cli>>

\* the task's loop on the other packets a stream may carry: packets for a port
\* the input node has not, and noop packets
prime_other_packets ==
  /\ primer = "running"
  /\ txState' = "none"
  /\ primer' = primer
  /\ \/ /\ callerJunk < MaxJunk
        /\ callerJunk' = callerJunk + 1
        /\ \E packet \in StrayPackets :
             /\ Apply(prime_packet(Cur, packet))
             /\ primed' = packet
        /\ UNCHANGED callerSent
     \/ /\ callerSent < MaxIn
        /\ callerSent' = callerSent + 1
        /\ \E packet \in NoopPackets :
             /\ Apply(prime_packet(Cur, packet))
             /\ primed' = packet
        /\ UNCHANGED callerJunk
  /\ UNCHANGED <<pc, output, started, opIn, emitted, compEnded, stalls, portLog>>
  /\ UNCHANGED <<invocation, streams, validator, accepts, receiver, rest, cli>>

(***************************************************************************)
(* The operations.  The <input> node passes each packet through to the     *)
(* output port of the same name; comp emits what it likes, when it likes.  *)
(***************************************************************************)
InputOp ==
  /\ opIn[InputNode] # <<>>
  /\ LET pkt == Head(opIn[InputNode])
     IN Apply(accept_output(Cur, PortRef(InputNode, "Out", pkt.port), pkt))
  /\ opIn' = [opIn EXCEPT ![InputNode] = Tail(@)]
  /\ txState' = "none"
  /\ primed' = NoPacket
  /\ UNCHANGED <<pc, output, started, primer, callerSent, callerJunk, emitted, compEnded, stalls, portLog>>
  /\ UNCHANGED <<invocation, streams, validator, accepts, receiver, rest, cli>>

\* the packets the component may emit as its i-th packet
CompPackets(i) ==
  { Packet("a", "ok", Payload("comp", i)),
    DonePacket("a") }

CompEmitUpTo(n) ==
  /\ started[CompNode] >= 1
  /\ ~compEnded
  /\ emitted < n
  /\ emitted' = emitted + 1
  /\ \E pkt \in CompPackets(emitted + 1) :
       /\ Apply(accept_output(Cur, PortRef(CompNode, "Out", pkt.port), pkt))
       /\ streams' = [streams EXCEPT !.comp = carried(@, pkt)]
  /\ txState' = "none"
  /\ primed' = NoPacket
  /\ UNCHANGED <<pc, output, started, primer, callerSent, callerJunk, opIn, compEnded, stalls, portLog>>
  /\ UNCHANGED <<invocation, validator, accepts, receiver, rest, cli>>

\* the component emits one more packet of its stream
CompEmit == CompEmitUpTo(MaxEmit)

\* the component's output stream ends
CompEnd ==
  /\ started[CompNode] >= 1
  /\ ~compEnded
  /\ compEnded' = TRUE
  /\ txState' = "none"
  /\ primed' = NoPacket
  /\ UNCHANGED <<pc, ports, channel, finished, output, response, started, primer,
                 callerSent, callerJunk, opIn, emitted, stalls, doneCount, doneSkipped, arrived,
                 dropped, portLog>>
  /\ UNCHANGED <<invocation, streams, validator, accepts, receiver, rest, cli>>

\* the component's operation fails: its stream ends and an OpErr event is dispatched
OpErr ==
  /\ started[CompNode] >= 1
  /\ ~compEnded
  /\ compEnded' = TRUE
  /\ channel' = Append(channel, OpErrEvent(CompNode, OpFailure))
  /\ txState' = "none"
  /\ primed' = NoPacket
  /\ UNCHANGED <<pc, ports, finished, output, response, started, primer, callerSent,
                 callerJunk, opIn, emitted, stalls, doneCount, doneSkipped, arrived,
                 dropped, portLog>>
  /\ UNCHANGED <<invocation, streams, validator, accepts, receiver, rest, cli>>

(***************************************************************************)
(* The dispatch loop: one event of the interpreter channel per step.       *)
(***************************************************************************)
\* Transaction::take_component_input, Transaction::take_component_output
take_component_input(ps, port) == take_input(ps, port)
take_component_output(ps, port) == take_output(ps, port)

\* what a Data event makes the loop pass on: the packet it takes from the port,
\* or the port's done marker when there is none and the port has closed
passed_on(ps, port) ==
  IF taken(ps[port]) # <<>> THEN taken(ps[port])
  ELSE IF ps[port].status = "DoneClosed" THEN <<DonePacket(port.name)>>
  ELSE <<>>

\* what a connection hands to its downstream port for a packet of its upstream
\* port: an error packet gives way to the connection's default when it has one
over_connection(conn, pkt) ==
  LET substituted == process_default(conn, error_message(pkt))
  IN IF is_error(pkt) /\ substituted.ok
       THEN Packet(conn.to.name, "ok", substituted.value)
       ELSE set_port(pkt, conn.to.name)

\* forwarding that loses the packets
forward_dropping(s, conns, msgs) == s

\* the packets go to every connection of the port, in the connections' order
RECURSIVE forward(_, _, _)
forward(s, conns, msgs) ==
  IF conns = <<>> \/ msgs = <<>> THEN s
  ELSE forward(accept_input(s, Head(conns).to, over_connection(Head(conns), Head(msgs))),
               Tail(conns), msgs)

\* Data for an input port of the schematic output
HandleSchematicOutput ==
  /\ channel # <<>>
  /\ Head(channel).type = "Data"
  /\ Head(channel).port.node = SCHEMATIC_OUTPUT_INDEX
  /\ LET s == handle_schematic_output([Cur EXCEPT !.channel = Tail(@)])
     IN /\ Apply(s)
        /\ txState' = IF s.failed THEN "ChannelSend" ELSE "none"
  /\ primed' = NoPacket
  /\ UNCHANGED <<pc, output, started, primer, callerSent, callerJunk, opIn, emitted, compEnded, stalls,
                 portLog>>
  /\ UNCHANGED <<invocation, streams, validator, accepts, receiver, rest, cli>>

\* Data for an input port of another node: the packet goes to the running operation
HandleInputData ==
  /\ channel # <<>>
  /\ Head(channel).type = "Data"
  /\ Head(channel).port.node # SCHEMATIC_OUTPUT_INDEX
  /\ Head(channel).port.dir = "In"
  /\ LET port == Head(channel).port
     IN /\ opIn' = [opIn EXCEPT ![port.node] = @ \o passed_on(ports, port)]
        /\ Apply([Cur EXCEPT !.channel = Tail(@),
                             !.ports = take_component_input(@, port)])
  /\ txState' = "none"
  /\ primed' = NoPacket
  /\ UNCHANGED <<pc, output, started, primer, callerSent, callerJunk, emitted, compEnded, stalls, portLog>>
  /\ UNCHANGED <<invocation, streams, validator, accepts, receiver, rest, cli>>

\* Data for an output port: the packet goes to every connected downstream port
HandleOutputData ==
  /\ channel # <<>>
  /\ Head(channel).type = "Data"
  /\ Head(channel).port.dir = "Out"
  /\ LET port == Head(channel).port
     IN Apply(forward([Cur EXCEPT !.channel = Tail(@),
                                  !.ports = take_component_output(@, port)],
                      Connections(port), passed_on(ports, port)))
  /\ txState' = "none"
  /\ primed' = NoPacket
  /\ UNCHANGED <<pc, output, started, primer, callerSent, callerJunk, opIn, emitted, compEnded, stalls,
                 portLog>>
  /\ UNCHANGED <<invocation, streams, validator, accepts, receiver, rest, cli>>

\* OpErr for a node
HandleOpErr ==
  /\ channel # <<>>
  /\ Head(channel).type = "OpErr"
  /\ Apply(handle_op_err([Cur EXCEPT !.channel = Tail(@)],
                         Head(channel).port.node, Head(channel).err))
  /\ txState' = "none"
  /\ primed' = NoPacket
  /\ UNCHANGED <<pc, output, started, primer, callerSent, callerJunk, opIn, emitted,
                 compEnded, stalls, portLog>>
  /\ UNCHANGED <<invocation, streams, validator, accepts, receiver, rest, cli>>

\* finish without the drop of the response sender
finish_keeping_sender ==
  /\ channel # <<>>
  /\ Head(channel).type = "Done"
  /\ channel' = Tail(channel)
  /\ txState' = "none"
  /\ primed' = NoPacket
  /\ UNCHANGED <<pc, ports, finished, output, response, started, primer, callerSent, callerJunk,
                 opIn, emitted, compEnded, stalls, doneCount, doneSkipped, arrived, dropped,
                 portLog>>
  /\ UNCHANGED <<invocation, streams, validator, accepts, receiver, rest, cli>>

\* Done: Transaction::finish drops the response sender
finish ==
  /\ channel # <<>>
  /\ Head(channel).type = "Done"
  /\ channel' = Tail(channel)
  /\ output' = FALSE
  /\ txState' = "none"
  /\ primed' = NoPacket
  /\ UNCHANGED <<pc, ports, finished, response, started, primer, callerSent, callerJunk, opIn,
                 emitted, compEnded, stalls, doneCount, doneSkipped, arrived, dropped, portLog>>
  /\ UNCHANGED <<invocation, streams, validator, accepts, receiver, rest, cli>>

(***************************************************************************)
(* Transaction::check_stalled, run by the loop when the transaction has    *)
(* not been touched for the configured time.                               *)
(***************************************************************************)
\* check_stalled that reports the hang without looking at done()
check_stalled_always_hung ==
  /\ pc = "started"
  /\ stalls < MaxStall
  /\ stalls' = stalls + 1
  /\ primed' = NoPacket
  /\ LET s == emit_output_message(Cur, <<TransactionHung>>)
     IN /\ Apply(s)
        /\ txState' = IF s.failed THEN "ChannelSend" ELSE "OutputPending"
  /\ UNCHANGED <<pc, output, started, primer, callerSent, callerJunk, opIn, emitted, compEnded, portLog>>
  /\ UNCHANGED <<invocation, streams, validator, accepts, receiver, rest, cli>>

check_stalled ==
  /\ pc = "started"
  /\ stalls < MaxStall
  /\ stalls' = stalls + 1
  /\ primed' = NoPacket
  /\ IF done(ports)
       THEN /\ txState' = "OutputComplete"
            /\ Apply(Cur)
       ELSE LET s == emit_output_message(Cur, <<TransactionHung>>)
            IN /\ Apply(s)
               /\ txState' = IF s.failed THEN "ChannelSend" ELSE "OutputPending"
  /\ UNCHANGED <<pc, output, started, primer, callerSent, callerJunk, opIn, emitted, compEnded, portLog>>
  /\ UNCHANGED <<invocation, streams, validator, accepts, receiver, rest, cli>>

Next ==
  \/ start
  \/ prime_input_ports
  \/ InputOp
  \/ CompEmit
  \/ CompEnd
  \/ HandleSchematicOutput
  \/ HandleInputData
  \/ HandleOutputData
  \/ finish
  \/ check_stalled

Spec == Init /\ [][Next]_vars

\* the dispatch loop, and the scheduling the executor gives every task
Loop == HandleSchematicOutput \/ HandleInputData \/ HandleOutputData \/ finish

FairSpec ==
  /\ Spec
  /\ WF_vars(prime_input_ports)
  /\ WF_vars(InputOp)
  /\ WF_vars(CompEmit \/ CompEnd)
  /\ WF_vars(Loop)
  /\ WF_vars(check_stalled)

(***************************************************************************)
(* The priming path on its own, with a caller whose stream also carries    *)
(* packets for unknown ports and noop packets.                             *)
(***************************************************************************)
StrayNext ==
  \/ start
  \/ prime_input_ports
  \/ prime_other_packets
  \/ InputOp
  \/ HandleInputData
  \/ HandleOutputData
  \/ HandleSchematicOutput
  \/ check_stalled

StraySpec == Init /\ [][StrayNext]_vars

(***************************************************************************)
(* The priming path with a caller whose stream may also deliver an Err     *)
(* item.                                                                   *)
(***************************************************************************)
ErrNext ==
  \/ start
  \/ prime_input_ports
  \/ prime_other_packets
  \/ prime_stream_err
  \/ InputOp
  \/ HandleInputData
  \/ HandleOutputData
  \/ HandleSchematicOutput
  \/ check_stalled

ErrSpec == Init /\ [][ErrNext]_vars

(***************************************************************************)
(* The transaction with a caller who may drop the response stream.         *)
(***************************************************************************)
CallerDrops ==
  /\ pc = "started"
  /\ receiver
  /\ receiver' = FALSE
  /\ txState' = "none"
  /\ primed' = NoPacket
  /\ UNCHANGED <<pc, ports, channel, finished, output, response, started, primer, callerSent,
                 callerJunk, opIn, emitted, compEnded, stalls, doneCount, doneSkipped, arrived,
                 dropped, portLog>>
  /\ UNCHANGED <<invocation, streams, validator, accepts, rest, cli>>

DropNext ==
  \/ start
  \/ prime_input_ports
  \/ InputOp
  \/ CompEmit
  \/ CallerDrops
  \/ HandleSchematicOutput
  \/ HandleInputData
  \/ HandleOutputData
  \/ finish

DropSpec == Init /\ [][DropNext]_vars

(***************************************************************************)
(* The transaction with the accept calls of the tasks taken one statement  *)
(* at a time: between the buffering of a packet and the dispatch of its    *)
(* Data event the other task and the loop may run.                         *)
(***************************************************************************)
Accepting(task, s, port, pkt, step) ==
  [pending |-> [accepts.pending EXCEPT
                  ![task] = IF step = 1 THEN <<[port |-> port, pkt |-> pkt]>> ELSE <<>>],
   buffered |-> s.buffered,
   dispatched |-> s.dispatched]

\* the input-priming task
prime_input_ports_stepwise ==
  /\ primer = "running"
  /\ txState' = "none"
  /\ \/ \* the stream ends: payloads.next() is None
        /\ accepts.pending["primer"] = <<>>
        /\ primer' = "ended"
        /\ primed' = NoPacket
        /\ Apply(Cur)
        /\ UNCHANGED <<callerSent, streams, accepts>>
     \/ \* Some(Ok(packet)): accept_input buffers the packet
        /\ accepts.pending["primer"] = <<>>
        /\ callerSent < MaxIn
        /\ callerSent' = callerSent + 1
        /\ primer' = primer
        /\ \E packet \in CallerPackets(callerSent + 1) :
             LET port == PortRef(InputNode, "In", packet.port)
                 s == accept_input_at(Cur, port, packet, 1)
             IN /\ find_input(packet.port)
                /\ Apply(s)
                /\ accepts' = Accepting("primer", s, port, packet, 1)
                /\ primed' = packet
                /\ streams' = [streams EXCEPT !.caller = carried(@, packet)]
     \/ \* accept_input dispatches the Data event
        /\ accepts.pending["primer"] # <<>>
        /\ primer' = primer
        /\ LET call == accepts.pending["primer"][1]
               s == accept_input_at(Cur, call.port, call.pkt, 2)
           IN /\ Apply(s)
              /\ accepts' = Accepting("primer", s, call.port, call.pkt, 2)
              /\ primed' = call.pkt
        /\ UNCHANGED <<callerSent, streams>>
  /\ UNCHANGED <<pc, output, started, callerJunk, opIn, emitted, compEnded, stalls, portLog>>
  /\ UNCHANGED <<invocation, validator, receiver, rest, cli>>

\* the consumer of the component's output stream
CompEmitStepwise ==
  /\ started[CompNode] >= 1
  /\ ~compEnded
  /\ txState' = "none"
  /\ primed' = NoPacket
  /\ \/ \* the next packet of the stream: accept_output buffers it
        /\ accepts.pending[CompNode] = <<>>
        /\ emitted < MaxEmit
        /\ emitted' = emitted + 1
        /\ \E pkt \in CompPackets(emitted + 1) :
             LET port == PortRef(CompNode, "Out", pkt.port)
                 s == accept_output_at(Cur, port, pkt, 1)
             IN /\ Apply(s)
                /\ accepts' = Accepting(CompNode, s, port, pkt, 1)
                /\ streams' = [streams EXCEPT !.comp = carried(@, pkt)]
     \/ \* accept_output dispatches the Data event
        /\ accepts.pending[CompNode] # <<>>
        /\ LET call == accepts.pending[CompNode][1]
               s == accept_output_at(Cur, call.port, call.pkt, 2)
           IN /\ Apply(s)
              /\ accepts' = Accepting(CompNode, s, call.port, call.pkt, 2)
        /\ UNCHANGED <<emitted, streams>>
  /\ UNCHANGED <<pc, output, started, primer, callerSent, callerJunk, opIn, compEnded, stalls, portLog>>
  /\ UNCHANGED <<invocation, validator, receiver, rest, cli>>

AcceptNext ==
  \/ start
  \/ prime_input_ports_stepwise
  \/ InputOp
  \/ CompEmitStepwise
  \/ HandleSchematicOutput
  \/ HandleInputData
  \/ HandleOutputData
  \/ finish

AcceptSpec == Init /\ [][AcceptNext]_vars

(***************************************************************************)
(* The transaction with a component whose operation may fail.              *)
(***************************************************************************)
FailNext ==
  \/ start
  \/ prime_input_ports
  \/ InputOp
  \/ CompEmit
  \/ OpErr
  \/ HandleSchematicOutput
  \/ HandleInputData
  \/ HandleOutputData
  \/ HandleOpErr
  \/ finish

FailSpec == Init /\ [][FailNext]_vars

(***************************************************************************)
(* The same invocation under any seed and every interleaving of the        *)
(* priming task, the component's output and the dispatch loop, with no     *)
(* timer: the component may go on emitting after its done.                 *)
(***************************************************************************)
DetInit == \E seed \in Seeds : new(seed) /\ Idle

DetNext ==
  \/ start
  \/ prime_input_ports
  \/ InputOp
  \/ CompEmitUpTo(MaxEmit + 1)
  \/ CompEnd
  \/ HandleSchematicOutput
  \/ HandleInputData
  \/ HandleOutputData
  \/ finish

DetSpec == DetInit /\ [][DetNext]_vars

(***************************************************************************)
(* One port buffer on its own: any state a buffer can be in, then any      *)
(* sequence of drains and of enqueues of what a connection hands over.     *)
(***************************************************************************)
ProbePort == PortRef(SCHEMATIC_OUTPUT_INDEX, "In", "a")

\* the connections that may lead to the port: without a default, with a literal
\* default, and with a default that holds the error message
ProbeConnections ==
  { ConnectionDefinition(PortRef(CompNode, "Out", "a"), ProbePort, d) :
      d \in {NoValue, SomeValue(<<"fallback">>), SomeValue(<<"fallback", ErrorPlaceholder>>)} }

QueuedPackets ==
  { Packet("a", "ok", <<"p1">>), Packet("a", "ok", <<"p2">>), Packet("a", "err", <<"p3">>) }

RECURSIVE QueuesUpTo(_)
QueuesUpTo(n) ==
  IF n = 0 THEN {<<>>}
  ELSE QueuesUpTo(n - 1)
       \cup {Append(q, x) : q \in {r \in QueuesUpTo(n - 1) : Len(r) = n - 1},
                            x \in QueuedPackets}

PortStates ==
  { pb \in [status : PortStatus, queue : QueuesUpTo(MaxQueue)] :
      /\ pb.status = "DoneClosed" => pb.queue = <<>>
      /\ pb.status = "DoneOpen" => pb.queue # <<>> }

PortInit ==
  /\ pc = "port"
  /\ \E pb \in PortStates :
       /\ ports = [p \in AllPorts |-> IF p = ProbePort THEN pb ELSE NewPort]
       /\ portLog = [NoLog EXCEPT !.accepted = pb.queue]
  /\ channel = <<>>
  /\ finished = FALSE
  /\ output = TRUE
  /\ response = <<>>
  /\ started = [n \in NodeSet |-> 0]
  /\ primer = "idle"
  /\ callerSent = 0
  /\ callerJunk = 0
  /\ opIn = [n \in NodeSet |-> <<>>]
  /\ emitted = 0
  /\ compEnded = FALSE
  /\ stalls = 0
  /\ txState = "none"
  /\ primed = NoPacket
  /\ doneCount = 0
  /\ doneSkipped = FALSE
  /\ arrived = {}
  /\ dropped = FALSE
  /\ invocation = [seed |-> DefaultSeed, tx_id |-> uuid(DefaultSeed)]
  /\ streams = NoStreams
  /\ accepts = NoAccepts
  /\ receiver = TRUE
  /\ Idle

PortEnqueue ==
  /\ \E conn \in ProbeConnections, sent \in QueuedPackets \cup {DonePacket("a")} :
     LET pkt == over_connection(conn, sent) IN
       /\ \/ is_done(pkt)
          \/ /\ Len(ports[ProbePort].queue) < MaxQueue
             /\ Len(portLog.accepted) < MaxAccept
       /\ ports' = buffer_in(ports, ProbePort, pkt)
       /\ portLog' = [op |-> "buffer", conn |-> conn, sent |-> sent, pkt |-> pkt,
                      before |-> ports[ProbePort],
                      got |-> <<>>,
                      accepted |-> IF is_done(pkt) \/ ports[ProbePort].status = "DoneClosed"
                                     THEN portLog.accepted
                                     ELSE Append(portLog.accepted, pkt),
                      drained |-> portLog.drained]
  /\ UNCHANGED <<pc, channel, finished, output, response, started, primer, callerSent, callerJunk,
                 opIn, emitted, compEnded, stalls, primed, txState, doneCount, doneSkipped, arrived, dropped>>
  /\ UNCHANGED <<invocation, streams, validator, accepts, receiver, rest, cli>>

PortDrain ==
  /\ ports' = take_component_input(ports, ProbePort)
  /\ portLog' = [op |-> "take", conn |-> NoLog.conn, sent |-> NoLog.sent,
                 pkt |-> NoLog.pkt, before |-> ports[ProbePort],
                 got |-> taken(ports[ProbePort]),
                 accepted |-> portLog.accepted,
                 drained |-> portLog.drained \o taken(ports[ProbePort])]
  /\ UNCHANGED <<pc, channel, finished, output, response, started, primer, callerSent, callerJunk,
                 opIn, emitted, compEnded, stalls, primed, txState, doneCount, doneSkipped, arrived, dropped>>
  /\ UNCHANGED <<invocation, streams, validator, accepts, receiver, rest, cli>>

PortNext == PortEnqueue \/ PortDrain

PortSpec == PortInit /\ [][PortNext]_vars

(***************************************************************************)
(* Validation of a schematic model: any schematic of the manifests below,  *)
(* then the validation phases and the commits of providers in any order.   *)
(***************************************************************************)
logger == [reference |-> "logger", def |-> ComponentDefinition("test-namespace", "log")]
child == [reference |-> "child", def |-> ComponentDefinition("self", "child")]
bare == [reference |-> "bare", def |-> [name |-> "log", namespace |-> "", id |-> <<"log">>]]

\* the instance maps a manifest may declare, in the order get_references gives
ManifestComponents ==
  { <<>>, <<logger>>, <<child>>, <<logger, child>>, <<child, logger>>, <<logger, bare>> }

\* the connections a manifest may hold
ManifestConnections ==
  { ConnectionDefinition(Target(SCHEMATIC_INPUT, "input"), Target("logger", "input"), NoValue),
    ConnectionDefinition(Target("logger", "output"), Target(SCHEMATIC_OUTPUT, "output"), NoValue),
    ConnectionDefinition(Target(SCHEMATIC_INPUT, "input"), Target(SCHEMATIC_OUTPUT, "output"),
                         NoValue),
    ConnectionDefinition(Target("dangling1", "output"), Target(SCHEMATIC_OUTPUT, "output"),
                         NoValue),
    ConnectionDefinition(Target("dangling1", "output"), Target(SCHEMATIC_OUTPUT, "output"),
                         SomeValue(<<"Default string">>)),
    ConnectionDefinition(NoTarget, Target(SCHEMATIC_OUTPUT, "output"),
                         SomeValue(<<"Default string">>)),
    ConnectionDefinition(Target("logger", "output"), Target("dangling2", "input"), NoValue),
    ConnectionDefinition(Target("logger", "output"), Target("logger", "input"), NoValue),
    ConnectionDefinition(Target(SCHEMATIC_INPUT, "input"), Target("logger", "bogus"), NoValue),
    ConnectionDefinition(Target("logger", "bogus"), Target(SCHEMATIC_OUTPUT, "output"), NoValue),
    ConnectionDefinition(Target(SCHEMATIC_INPUT, "input"), Target("child", "child_input"),
                         NoValue),
    ConnectionDefinition(Target("child", "child_output"), Target(SCHEMATIC_OUTPUT, "output"),
                         NoValue) }

ManifestConnectionLists ==
  UNION { [1..n -> ManifestConnections] : n \in 0..MaxConns }

\* the providers that may be committed
ManifestProviders ==
  { ProviderModel("test-namespace",
                  {ComponentModel("test-namespace", "log", <<"input">>, <<"output">>)}),
    ProviderModel("self",
                  {ComponentModel("child_ref", "child", <<"child_input">>,
                                  <<"child_output">>)}) }

ValidInit ==
  /\ new(DefaultSeed)
  /\ rest = NoRequest
  /\ cli = NoCli
  /\ \E components \in ManifestComponents, connections \in ManifestConnectionLists :
       validator = [NoValidator EXCEPT
                      !.model = SchematicModel("Test", components, connections, {})]

\* the process is still there: no validation has overflowed the stack
Alive == validator.early # Err(StackOverflow)

ValidateEarly ==
  /\ validator.early = NotRun
  /\ validator' = [validator EXCEPT !.early = validate_early_errors(validator.model)]
  /\ UNCHANGED <<transaction, rest, cli>>

CommitProviders ==
  /\ Alive
  /\ \E provider \in ManifestProviders \ validator.model.providers :
       validator' = [validator EXCEPT !.model = commit_providers(@, <<provider>>),
                                      !.late = NotRun,
                                      !.final = NotRun]
  /\ UNCHANGED <<transaction, rest, cli>>

ValidateLate ==
  /\ Alive
  /\ validator.late = NotRun
  /\ validator' = [validator EXCEPT !.late = validate_late_errors(validator.model)]
  /\ UNCHANGED <<transaction, rest, cli>>

ValidateFinal ==
  /\ Alive
  /\ validator.final = NotRun
  /\ validator' = [validator EXCEPT !.final = validate_final_errors(validator.model)]
  /\ UNCHANGED <<transaction, rest, cli>>

ValidNext == ValidateEarly \/ CommitProviders \/ ValidateLate \/ ValidateFinal

ValidSpec == ValidInit /\ [][ValidNext]_vars

(***************************************************************************)
(* The REST handler: RestHandler::serve on a request that matches a route, *)
(* up to the packets it hands to the invocation.                           *)
(***************************************************************************)
\* Packet::encode
encode(name, value) == Packet(name, "ok", <<value>>)

\* Vec::dedup: of every run of equal consecutive elements the first is kept
RECURSIVE dedup(_)
dedup(names) ==
  IF Len(names) <= 1 THEN names
  ELSE IF names[1] = names[2] THEN dedup(Tail(names))
  ELSE <<names[1]>> \o dedup(Tail(names))

\* the packets of the parameters, then of the body unless the method is GET
data_packets(request) ==
  [i \in 1..Len(request.path_params) |-> encode(request.path_params[i], "v")]
  \o [i \in 1..Len(request.query_params) |-> encode(request.query_params[i], "v")]
  \o (IF request.method # "Get"
        THEN <<encode("input", IF request.body = "empty" THEN "null" ELSE "json")>>
        ELSE <<>>)

\* the packets with the done packets pushed after them
with_done(packets) ==
  LET port_names == dedup([i \in 1..Len(packets) |-> packets[i].port])
  IN packets \o [i \in 1..Len(port_names) |-> DonePacket(port_names[i])]

\* the methods of a request; the handler knows the first four
Methods == {"Get", "Post", "Put", "Delete", "Patch"}
ParamNames == {"input", "id", "page"}

\* the parameter lists a route may give: no name twice in one list
ParamLists ==
  { l \in UNION {[1..n -> ParamNames] : n \in 0..MaxParams} :
      \A i, j \in 1..Len(l) : l[i] = l[j] => i = j }

Requests ==
  [method : Methods, path_params : ParamLists, query_params : ParamLists,
   body : {"empty", "json", "bad"}]

RestInit ==
  /\ new(DefaultSeed)
  /\ validator = NoValidator
  /\ cli = NoCli
  /\ \E request \in Requests : rest = [NoRequest EXCEPT !.request = request]

serve ==
  /\ rest.result = "none"
  /\ rest' =
       IF rest.request.method \notin {"Get", "Post", "Put", "Delete"}
         THEN [rest EXCEPT !.result = "NOT_FOUND"]
       ELSE IF rest.request.method # "Get" /\ rest.request.body = "bad"
         THEN [rest EXCEPT !.result = "InvalidBody"]
       ELSE [rest EXCEPT !.packets = with_done(data_packets(rest.request)),
                         !.result = "invoked"]
  /\ UNCHANGED <<transaction, validator, cli>>

RestNext == serve

RestSpec == RestInit /\ [][RestNext]_vars

(***************************************************************************)
(* The Cli trigger: run and handle_command on one task, wait_for_done on   *)
(* another, around the oneshot channel made by load_impl.                  *)
(***************************************************************************)
\* the arguments after `--`, with the app name put first
RECURSIVE after_dashes(_)
after_dashes(args) ==
  IF args # <<>> /\ args[1] # "--" THEN after_dashes(Tail(args))
  ELSE IF args # <<>> THEN Tail(args)
  ELSE args

ArgWords == {"wick", "--", "x"}
CommandLines == UNION {[1..n -> ArgWords] : n \in 0..2}

\* Cli::load_impl: the channel is made and both ends are kept in the trigger
load_impl(kind, argv) ==
  [pc |-> "loaded", kind |-> kind, args |-> argv, left |-> 0, done_tx |-> "Some",
   done_rx |-> "Some", chan |-> "open", waiter |-> "idle", result |-> "none"]

CliInit ==
  /\ new(DefaultSeed)
  /\ validator = NoValidator
  /\ rest = NoRequest
  /\ \E kind \in {"Cli", "Http"}, argv \in CommandLines : cli = load_impl(kind, argv)

\* Trigger::run up to the call of handle_command
run ==
  /\ cli.pc = "loaded"
  /\ cli' = IF cli.kind # "Cli"
              THEN [cli EXCEPT !.pc = "returned", !.result = "InvalidTriggerConfig"]
              ELSE [cli EXCEPT !.pc = "resolve_ref",
                               !.args = <<"app">> \o after_dashes(@)]
  /\ UNCHANGED <<transaction, validator, rest>>

\* Cli::handle_command, from one suspension point to the next: resolve_ref,
\* runtime.build(), runtime.invoke(), then response.next() until the stream ends,
\* then the send on done_tx.  Each of the first three may fail, and `?` returns
\* the error: the sender stays in the trigger.
handle_command ==
  /\ \/ /\ cli.pc \in {"resolve_ref", "build", "invoke"}
        /\ \/ cli' = [cli EXCEPT !.pc = "returned", !.result = "Err"]
           \/ /\ cli.pc = "resolve_ref"
              /\ cli' = [cli EXCEPT !.pc = "build"]
           \/ /\ cli.pc = "build"
              /\ cli' = [cli EXCEPT !.pc = "invoke"]
           \/ /\ cli.pc = "invoke"
              /\ \E n \in 0..MaxResponse : cli' = [cli EXCEPT !.pc = "response", !.left = n]
     \/ /\ cli.pc = "response"
        /\ cli' = IF cli.left > 0
                    THEN [cli EXCEPT !.left = @ - 1]
                    ELSE [cli EXCEPT !.pc = "returned", !.result = "Ok", !.chan = "sent",
                                     !.done_tx = "None"]
  /\ UNCHANGED <<transaction, validator, rest>>

\* Cli::wait_for_done: the receiver is taken, then awaited; the await ends when
\* the sender has sent or has been dropped
wait_for_done ==
  /\ \/ /\ cli.waiter = "idle"
        /\ cli.done_rx = "Some"
        /\ cli' = [cli EXCEPT !.waiter = "waiting", !.done_rx = "None"]
     \/ /\ cli.waiter = "waiting"
        /\ cli.chan \in {"sent", "closed"}
        /\ cli' = [cli EXCEPT !.waiter = "returned"]
  /\ UNCHANGED <<transaction, validator, rest>>

CliNext == run \/ handle_command \/ wait_for_done

CliSpec == CliInit /\ [][CliNext]_vars

(***************************************************************************)
(* The properties.                                                         *)
(***************************************************************************)
OutputNodeInputs == InputPorts(SCHEMATIC_OUTPUT_INDEX)
NonOutputNodes == NodeSet \ {SCHEMATIC_OUTPUT_INDEX}

\* C1: done() is true exactly when every input port of the schematic-output node
\* is DoneClosed with an empty queue: the TxState check_stalled has just returned
\* is OutputComplete in exactly those states, and OutputPending whenever some
\* output-node port is DoneOpen with packets still queued.
C1_DoneIffAllOutputsClosed ==
  txState # "none" =>
    /\ txState = "OutputComplete" <=>
         ~ \E p \in OutputNodeInputs :
             \/ ports[p].status \in {"Open", "Closing", "DoneOpen"}
             \/ Len(ports[p].queue) > 0
    /\ (\E p \in OutputNodeInputs :
           ports[p].status = "DoneOpen" /\ Len(ports[p].queue) > 0)
         => txState = "OutputPending"

\* the stall check found one output-node port DoneOpen with a packet queued and
\* every other one closed, and reported OutputPending
C1_Witness ==
  /\ txState = "OutputPending"
  /\ \E p \in OutputNodeInputs :
       /\ ports[p].status = "DoneOpen" /\ ports[p].queue # <<>>
       /\ \A q \in OutputNodeInputs \ {p} :
            ports[q].status = "DoneClosed" /\ ports[q].queue = <<>>

\* C2: the Done event of a transaction is dispatched at most once, whatever the
\* sequence of emit_output_message, handle_schematic_output, check_stalled and
\* emit_done calls; the finished flag is set exactly from the first dispatch on.
C2_DoneDispatchedAtMostOnce ==
  /\ doneCount <= 1
  /\ finished <=> doneCount = 1

\* Done was dispatched and a later emit_done call was stopped by the flag
C2_Witness == doneCount = 1 /\ finished /\ doneSkipped

\* nothing is left to happen: the caller's stream and the component's output
\* stream have ended, every packet and event has been handled, and the stall
\* check has run
Quiescent ==
  /\ pc = "started"
  /\ primer = "ended"
  /\ compEnded
  /\ channel = <<>>
  /\ \A n \in NodeSet : opIn[n] = <<>>
  /\ stalls >= 1

\* C3: for every started transaction the Done event is dispatched (emit_done
\* takes effect once, not zero times): when every task has run to its end and
\* the loop has handled every event, Done has been dispatched.
C3_DoneEventuallyDispatched == Quiescent => doneCount = 1

\* the packets of the response stream that carry the port name
OnPort(resp, name) == SelectSeq(resp, LAMBDA x : x.port = name)

\* C4: the caller's output stream ends, on every execution, with a done packet for
\* each output port and then closes: when nothing is left to happen, the last
\* packet of every output port is done and the response sender has been dropped.
C4_StreamEndsWithDone ==
  Quiescent =>
    /\ ~output
    /\ \A name \in Range(InputsOf(SCHEMATIC_OUTPUT_INDEX)) :
         /\ OnPort(response, name) # <<>>
         /\ is_done(OnPort(response, name)[Len(OnPort(response, name))])

\* C5: a stall check on a transaction that is not done emits the "Transaction
\* hung" error packet and then marks the transaction done (a Done event follows
\* the error packet); on a transaction that is done it emits nothing and reports
\* OutputComplete.
C5_StallCheckMarksDone ==
  /\ txState = "OutputPending" =>
       /\ response # <<>>
       /\ response[Len(response)] = TransactionHung
       /\ finished
       /\ doneCount = 1
  /\ txState = "OutputComplete" =>
       (response = <<>> \/ response[Len(response)] # TransactionHung)

\* C6: in one transaction every instance of a non-output node is started at most
\* once, exactly once by Transaction::start, and the instance of the schematic
\* output is never started.
C6_InstanceStartedAtMostOnce ==
  /\ \A n \in NodeSet : started[n] <= 1
  /\ started[SCHEMATIC_OUTPUT_INDEX] = 0
  /\ pc = "started" => \A n \in NonOutputNodes : started[n] = 1

\* a Data event reached a started instance: its packet went to the running
\* operation, and nothing was started again
C6_Witness ==
  /\ pc = "started"
  /\ opIn[InputNode] # <<>>
  /\ started[InputNode] = 1

Rank(status) ==
  CASE status = "Open" -> 0
    [] status = "Closing" -> 1
    [] status = "DoneOpen" -> 2
    [] status = "DoneClosed" -> 3

\* C8: the status of a port only moves forward along Open, Closing, DoneOpen,
\* DoneClosed: no enqueue and no drain moves a port to an earlier status.
C8_StatusNeverRegresses ==
  [][\A p \in AllPorts : Rank(ports'[p].status) >= Rank(ports[p].status)]_vars

\* a drain has moved a port from DoneOpen to DoneClosed
C8_Witness ==
  /\ portLog.op = "take"
  /\ portLog.before.status = "DoneOpen"
  /\ ports[ProbePort].status = "DoneClosed"

\* C9: a packet enqueued on a port whose status is DoneClosed is dropped: the
\* port's queue and status stay as they are, and the transaction goes on.
C9_ClosedPortDropsPackets ==
  [][\A p \in AllPorts : ports[p].status = "DoneClosed" => ports'[p] = ports[p]]_vars

\* a packet was enqueued on a closed port, and the transaction went on to finish
C9_Witness == dropped /\ doneCount = 1 /\ ~output /\ channel = <<>>

\* C10: an enqueue on a port that is not DoneClosed: a done packet leaves the queue
\* as it is and sets the status to DoneOpen when the queue is non-empty and to
\* DoneClosed when it is empty; any other packet is appended at the tail, Open
\* stays Open and Closing becomes DoneOpen.
C10_EnqueueOnOpenPort ==
  (portLog.op = "buffer" /\ portLog.before.status # "DoneClosed") =>
    LET before == portLog.before
        after == ports[ProbePort]
    IN IF portLog.pkt.kind = "done"
         THEN /\ after.queue = before.queue
              /\ before.queue # <<>> => after.status = "DoneOpen"
              /\ before.queue = <<>> => after.status = "DoneClosed"
         ELSE /\ Len(after.queue) = Len(before.queue) + 1
              /\ after.queue[Len(after.queue)] = portLog.pkt
              /\ SubSeq(after.queue, 1, Len(before.queue)) = before.queue
              /\ before.status = "Open" => after.status = "Open"
              /\ before.status = "Closing" => after.status = "DoneOpen"

\* a packet was appended to a Closing port, which became DoneOpen
C10_Witness ==
  /\ portLog.op = "buffer"
  /\ portLog.before.status = "Closing"
  /\ portLog.pkt.kind = "ok"
  /\ ports[ProbePort].status = "DoneOpen"
  /\ Len(ports[ProbePort].queue) = Len(portLog.before.queue) + 1

\* C11: a drain removes exactly the head packet of the port's queue; when that
\* leaves the queue empty and the status is DoneOpen the status becomes DoneClosed,
\* and in every other case the status stays as it is.
C11_DrainTakesHead ==
  portLog.op = "take" =>
    LET before == portLog.before
        after == ports[ProbePort]
    IN IF before.queue = <<>>
         THEN portLog.got = <<>> /\ after = before
         ELSE /\ portLog.got = <<before.queue[1]>>
              /\ after.queue = SubSeq(before.queue, 2, Len(before.queue))
              /\ after.status = IF Len(before.queue) = 1 /\ before.status = "DoneOpen"
                                  THEN "DoneClosed" ELSE before.status

\* a drain took the head of a DoneOpen port with two packets queued, which stayed
\* DoneOpen with the second packet
C11_Witness ==
  /\ portLog.op = "take"
  /\ portLog.before.status = "DoneOpen"
  /\ Len(portLog.before.queue) = 2
  /\ portLog.got = <<portLog.before.queue[1]>>
  /\ ports[ProbePort] = [status |-> "DoneOpen", queue |-> <<portLog.before.queue[2]>>]

\* C12: the packets a port has accepted leave it in the order in which they were
\* enqueued: at any time the packets drained so far are, in order, the first of the
\* accepted packets, and the queue holds the others in order.
C12_PortIsFifo ==
  pc = "port" =>
    /\ Len(portLog.drained) <= Len(portLog.accepted)
    /\ \A i \in 1..Len(portLog.drained) : portLog.drained[i] = portLog.accepted[i]
    /\ ports[ProbePort].queue =
         SubSeq(portLog.accepted, Len(portLog.drained) + 1, Len(portLog.accepted))

\* two different packets have been drained, in the order in which they were
\* accepted, while a later packet is queued
C12_Witness ==
  /\ pc = "port"
  /\ Len(portLog.drained) >= 2
  /\ portLog.drained[1] # portLog.drained[2]
  /\ ports[ProbePort].queue # <<>>
  /\ portLog.op = "take"

\* the place of a packet's payload among the payloads its producer makes
PayloadIndex(pkt) ==
  CHOOSE i \in 1..Len(CompPayloads) :
    pkt.val = <<CompPayloads[i]>> \/ pkt.val = <<CallerPayloads[i]>>

\* what the downstream instance of a connection has observed on its input port so
\* far, in order: for the schematic output, the packets it has passed on to the
\* response stream and then the packets of its queue
Observed(conn) == OnPort(response, conn.to.name) \o ports[conn.to].queue

\* C13: across an edge order is kept end to end: the packets the downstream
\* instance observes on its input port are in the order in which the upstream
\* instance emitted them, whatever the interleaving of the events of other ports.
C13_EdgeKeepsOrder ==
  \A conn \in AllConnections :
    \A i, j \in 1..Len(Observed(conn)) :
      i < j => PayloadIndex(Observed(conn)[i]) < PayloadIndex(Observed(conn)[j])

\* the component's two packets have reached the response stream in their order,
\* with a packet of the other edge between them
C13_Witness ==
  \E i, j, k \in 1..Len(response) :
    /\ i < j /\ j < k
    /\ response[i] = Packet("a", "ok", <<"p1">>)
    /\ response[j].port = "b"
    /\ response[k] = Packet("a", "ok", <<"p2">>)

\* C14: over every edge without a default, each non-error packet the upstream port
\* delivers is observed on the downstream port with the same payload, and the
\* downstream port observes nothing else: a step that takes a non-error packet from
\* the upstream port appends it, under the downstream port's name, to the
\* downstream port, and no other step appends to the downstream port.
C14_EdgeCarriesPayload ==
  [][\A conn \in AllConnections :
       ~has_default(conn) =>
         LET q == ports[conn.from].queue
             delivered == [port |-> conn.to.name, kind |-> q[1].kind, val |-> q[1].val]
         IN /\ (q # <<>> /\ ~is_error(q[1]) /\ ports'[conn.from].queue = Tail(q))
                 => ports'[conn.to].queue = Append(ports[conn.to].queue, delivered)
            /\ Len(ports'[conn.to].queue) > Len(ports[conn.to].queue)
                 => /\ q # <<>>
                    /\ ports'[conn.from].queue = Tail(q)
                    /\ ports'[conn.to].queue = Append(ports[conn.to].queue, delivered)
    ]_vars

\* the caller's packet has crossed the edge from <input>.input to <output>.b and
\* waits there under the name of that port with its payload
C14_Witness ==
  /\ ports[PortRef(InputNode, "Out", "input")].queue = <<>>
  /\ ports[PortRef(SCHEMATIC_OUTPUT_INDEX, "In", "b")].queue = <<Packet("b", "ok", <<"c1">>)>>

C16_UnknownPortDropped ==
  [][(primed' # NoPacket /\ primed'.port \notin Range(InputsOf(InputNode)))
       => /\ ports' = ports
          /\ channel' = channel
          /\ primer' = "running"]_vars

\* after a packet for an unknown port, the task has accepted the caller's next
\* packet on the input node's port
C16_Witness ==
  /\ callerJunk >= 1
  /\ primed = Packet("input", "ok", <<"c1">>)
  /\ ports[PortRef(InputNode, "In", "input")].queue = <<primed>>
  /\ primer = "running"

\* C17: a noop packet of the caller's stream is dropped by the input-priming task,
\* whatever port name it carries: no noop packet is ever queued on an input port
\* of the schematic-input node, and the step that handles one dispatches no event.
C17_NoopDropped ==
  /\ \A p \in InputPorts(InputNode) :
       \A i \in 1..Len(ports[p].queue) : ~is_noop(ports[p].queue[i])
  /\ is_noop(primed) =>
       (channel = <<>> \/ channel[Len(channel)] # DataEvent(PortRef(InputNode, "In", primed.port)))

\* C18: when the caller's stream ends without delivering any packet (and the
\* component closes its port without emitting anything), the transaction still
\* completes, and the response stream holds only a done for each output port.
C18_EmptyInputCompletes ==
  ( /\ Quiescent
    /\ callerSent = 0
    /\ callerJunk = 0
    /\ emitted = 1
    /\ ports[PortRef(CompNode, "Out", "a")].status = "DoneClosed" )
  => /\ doneCount = 1
     /\ \A i \in 1..Len(response) : is_done(response[i])
     /\ \A name \in Range(InputsOf(SCHEMATIC_OUTPUT_INDEX)) : OnPort(response, name) # <<>>

\* the Data events handle_op_err dispatches for the output ports of a node, from
\* the i-th port on: two for each port
RECURSIVE OpErrEvents(_, _)
OpErrEvents(n, i) ==
  IF i > Len(OutputsOf(n)) THEN <<>>
  ELSE <<DataEvent(PortRef(n, "Out", OutputsOf(n)[i])),
         DataEvent(PortRef(n, "Out", OutputsOf(n)[i]))>> \o OpErrEvents(n, i + 1)

Changed == {p \in AllPorts : ports'[p] # ports[p]}

\* a step of the input-priming task, of a handler of the dispatch loop, of the
\* task that hands on what an operation emits
PrimingStep == prime_input_ports \/ prime_other_packets
HandlerStep ==
  HandleSchematicOutput \/ HandleInputData \/ HandleOutputData \/ HandleOpErr \/ finish
OutputStep(n) == IF n = InputNode THEN InputOp ELSE CompEmit

FinishStep ==
  /\ channel # <<>>
  /\ Head(channel).type = "Done"
  /\ channel' = Tail(channel)

C21_NothingAfterFinish ==
  [][ /\ FinishStep => ~output'
      /\ ~output => (~output' /\ response' = response) ]_vars

\* the stall check ran on a finished transaction
C21_Witness ==
  /\ ~output
  /\ txState = "OutputComplete"
  /\ finished


(***************************************************************************)
(* C22: the same invocation with the same seed on the same schematic gives *)
(* the same transaction id and the same packet sequence on every output    *)
(* port, whatever the interleaving.  In one run: the id is the seeded      *)
(* generator's first draw, and what the caller has received on an output   *)
(* port is, at any moment, the start of the packets the port's upstream    *)
(* stream carried before its done, and all of them once the response       *)
(* stream has closed.                                                      *)
(***************************************************************************)
IsPrefix(s, t) == Len(s) <= Len(t) /\ s = SubSeq(t, 1, Len(s))

\* the packets of a stream before its first done
RECURSIVE BeforeDone(_)
BeforeDone(stream) ==
  IF stream = <<>> \/ is_done(Head(stream)) THEN <<>>
  ELSE <<Head(stream)>> \o BeforeDone(Tail(stream))

\* the stream that feeds a connection into the schematic output
SourceStream(conn) == IF conn.from.node = InputNode THEN streams.caller ELSE streams.comp

ExpectedOn(conn) ==
  LET before == BeforeDone(SourceStream(conn))
  IN [i \in 1..Len(before) |-> set_port(before[i], conn.to.name)]

SameOutput(conn) ==
  /\ IsPrefix(OnPort(response, conn.to.name), ExpectedOn(conn))
  /\ ~output => OnPort(response, conn.to.name) = ExpectedOn(conn)

OutputConnections == {conn \in AllConnections : conn.to.node = SCHEMATIC_OUTPUT_INDEX}

EchoConnections == {conn \in OutputConnections : conn.from.node = InputNode}

C23_EchoThenDone ==
  \A conn \in EchoConnections :
    ( /\ ~output
      /\ streams.caller # <<>>
      /\ EndsAtDone(streams.caller) )
    => OnPort(response, conn.to.name) = ExpectedOn(conn) \o <<DonePacket(conn.to.name)>>

(***************************************************************************)
(* The validator's claims: what a phase returned for the model as it is.   *)
(***************************************************************************)
Returned(result) == result # NotRun /\ result # Err(StackOverflow)

\* the errors of one kind in what a phase returned
ErrorsOf(result, kind) ==
  IF result = Ok \/ ~Returned(result) THEN <<>>
  ELSE SelectSeq(result[1].list, LAMBDA e : e.kind = kind)

Kinds(errors) == [i \in 1..Len(errors) |-> errors[i].kind]

EarlyValidator == Validator(validator.model, <<"self">>)

\* does the early check that reports this kind of error fail
EarlyCheckFails(kind) ==
  CASE kind = "NoInputs" -> is_err(assert_early_schematic_inputs(EarlyValidator))
    [] kind = "NoOutputs" -> is_err(assert_early_schematic_outputs(EarlyValidator))
    [] kind = "NotFullyQualified" -> is_err(assert_early_qualified_names(EarlyValidator))
    [] kind = "DanglingReference" -> is_err(assert_no_dangling_references(EarlyValidator))

EarlyOrder == <<"NoInputs", "NoOutputs", "NotFullyQualified", "DanglingReference">>

\* the schematic of test_dangling_refs
DanglingSchematic ==
  SchematicModel("Test", <<>>,
                 <<ConnectionDefinition(Target("dangling1", "output"),
                                        Target(SCHEMATIC_OUTPUT, "output"), NoValue)>>,
                 {})

\* C25: validate_early_errors runs all four early checks and returns the failing
\* ones together, in one EarlyError, in the order NoInputs, NoOutputs,
\* NotFullyQualified, DanglingReference; it returns Ok only when none fails; for
\* the single edge dangling1.output -> <output>.output it returns exactly
\* [NoInputs, DanglingReference(["dangling1"])].
C25_EarlyErrorsCollected ==
  Returned(validator.early) =>
    /\ validator.early = Ok <=> \A i \in 1..4 : ~EarlyCheckFails(EarlyOrder[i])
    /\ validator.early # Ok =>
         /\ validator.early[1].kind = "EarlyError"
         /\ Kinds(validator.early[1].list) = SelectSeq(EarlyOrder, EarlyCheckFails)
    /\ validator.model = DanglingSchematic =>
         validator.early =
           Err(EarlyError("Test", <<ValidationError("NoInputs", <<>>),
                                    ValidationError("DanglingReference", <<"dangling1">>)>>))

\* early validation has returned for the schematic of test_dangling_refs
C25_Witness ==
  /\ validator.model = DanglingSchematic
  /\ Returned(validator.early)
  /\ Len(validator.early[1].list) = 2

\* is the reference one of a declared instance
Declared(reference) == get_component_definition(validator.model, reference) # <<>>

\* the undeclared instances the connections name, in connection order: the source
\* of a connection unless it is <input> or there is none, then its target unless
\* it is <output>
RECURSIVE UndeclaredNames(_)
UndeclaredNames(conns) ==
  IF conns = <<>> THEN <<>>
  ELSE LET conn == Head(conns)
           source == IF /\ ~is_none(conn.from)
                        /\ ~matches_reference(conn.from, SCHEMATIC_INPUT)
                        /\ ~Declared(conn.from[1])
                       THEN <<conn.from[1]>> ELSE <<>>
           target == IF /\ ~matches_reference(conn.to, SCHEMATIC_OUTPUT)
                        /\ ~Declared(conn.to[1])
                       THEN <<conn.to[1]>> ELSE <<>>
       IN source \o target \o UndeclaredNames(Tail(conns))

\* C26: early validation reports DanglingReference exactly when some connection
\* names an undeclared instance as its source (other than <input>) or as its
\* target (other than <output>), with or without a default; the error lists those
\* names in connection order, and a connection without a source names none.
C26_DanglingReported ==
  Returned(validator.early) =>
    LET names == UndeclaredNames(validator.model.connections)
    IN ErrorsOf(validator.early, "DanglingReference") =
         IF names = <<>> THEN <<>> ELSE <<ValidationError("DanglingReference", names)>>

\* the input ports of the schematic output from which the walk upstream, along
\* each port's upstream connection, reaches <input> or a source-less connection
\* with a default: the ports found within n rounds
RECURSIVE ReachableWithin(_)
ReachableWithin(n) ==
  IF n = 0 THEN {}
  ELSE LET before == ReachableWithin(n - 1)
           conns == Range(validator.model.connections)
       IN { conn.to : conn \in
              { c \in conns :
                  /\ get_upstream_connection(validator.model, c.to) = <<c>>
                  /\ \/ matches_reference(c.from, SCHEMATIC_INPUT)
                     \/ is_none(c.from) /\ has_default(c)
                     \/ \E up \in conns :
                          /\ matches_reference(up.to, get_reference(c.from))
                          /\ up.to \in before } }

Reachable == ReachableWithin(Len(validator.model.connections) + 1)

\* the schematic of test_no_upstream
DefaultOnlySchematic(providers) ==
  SchematicModel("Test", <<>>,
                 <<ConnectionDefinition(NoTarget, Target(SCHEMATIC_OUTPUT, "output"),
                                        SomeValue(<<"Default string">>))>>,
                 providers)

\* C27: early validation reports NoInputs exactly when some input port of the
\* schematic output is not reachable, walking upstream along the connections, from
\* <input> or from a source-less connection with a default; the schematic whose
\* only connection is a default into <output> passes early and late validation.
C27_NoInputsIffUnreachable ==
  /\ validator.early # NotRun =>
       ( ErrorsOf(validator.early, "NoInputs") # <<>>
         <=> \E port \in Range(get_schematic_outputs(validator.model)) :
               port \notin Reachable )
  /\ \A providers \in SUBSET ManifestProviders :
       validator.model = DefaultOnlySchematic(providers) =>
         /\ validator.early \in {NotRun, Ok}
         /\ validator.late \in {NotRun, Ok}

\* the declared instances without a component model among the committed
\* providers, leaving out the namespaces given, each as "reference=>id"
Unresolved(omitted) ==
  { <<c.reference, "=>", c.def.id>> :
      c \in { d \in Range(validator.model.components) :
                /\ get_component_model(validator.model, d.def.id) = <<>>
                /\ d.def.namespace \notin omitted } }

\* what a phase returned lists exactly these missing models
ListsMissing(result, missing) ==
  LET errors == ErrorsOf(result, "MissingComponentModels")
  IN IF missing = {} THEN errors = <<>>
     ELSE /\ Len(errors) = 1
          /\ Range(errors[1].list) = missing
          /\ Len(errors[1].list) = Cardinality(missing)

\* the schematic of test_self: an instance of the `self` namespace between
\* <input> and <output>
SelfSchematic(providers) ==
  SchematicModel("Test", <<child>>,
                 <<ConnectionDefinition(Target(SCHEMATIC_INPUT, "input"),
                                        Target("child", "child_input"), NoValue),
                   ConnectionDefinition(Target("child", "child_output"),
                                        Target(SCHEMATIC_OUTPUT, "output"), NoValue)>>,
                 providers)

SelfCommitted ==
  \E provider \in validator.model.providers : provider.namespace = "self"

\* C28: MissingComponentModels lists exactly the declared instances whose
\* component model is unresolved, as "reference=>id": late validation leaves out
\* the instances of the `self` namespace, final validation leaves out none.  So a
\* schematic whose only unresolved instances are in `self` passes late validation,
\* and passes final validation only once the self signature is committed.
C28_MissingModelsListed ==
  /\ validator.late # NotRun => ListsMissing(validator.late, Unresolved({"self"}))
  /\ validator.final # NotRun => ListsMissing(validator.final, Unresolved({}))
  /\ \A providers \in SUBSET ManifestProviders :
       validator.model = SelfSchematic(providers) =>
         /\ validator.late \in {NotRun, Ok}
         /\ validator.final = Ok => SelfCommitted
         /\ SelfCommitted => validator.final \in {NotRun, Ok}

\* late validation has passed a schematic that final validation turns down for
\* its unresolved `self` instance
C28_Witness ==
  /\ validator.model.components = <<logger, child>>
  /\ validator.late = Ok
  /\ validator.final =
       Err(PostInitError("Test",
             <<ValidationError("MissingComponentModels",
                               <<<<"child", "=>", <<"self", "child">>>>>>)>>))

\* the resolved signature of a connection's source or target instance, if any
Resolved(target) == get_component_model_by_ref(validator.model, get_reference(target))

\* the port errors the connections call for, in connection order: for each
\* connection its source, then its target
RECURSIVE ExpectedPortErrors(_)
ExpectedPortErrors(conns) ==
  IF conns = <<>> THEN <<>>
  ELSE LET conn == Head(conns)
           source == IF /\ ~matches_reference(conn.from, SCHEMATIC_INPUT)
                        /\ Resolved(conn.from).ok
                        /\ get_reference(conn.from) # "<None>"
                        /\ conn.from[2] \notin Range(Resolved(conn.from).model[1].outputs)
                       THEN <<ValidationError("InvalidOutputPort",
                                <<conn.from, conn, Resolved(conn.from).model[1].outputs>>)>>
                       ELSE <<>>
           target == IF /\ ~matches_reference(conn.to, SCHEMATIC_OUTPUT)
                        /\ Resolved(conn.to).ok
                        /\ conn.to[2] \notin Range(Resolved(conn.to).model[1].inputs)
                       THEN <<ValidationError("InvalidInputPort",
                                <<conn.to, conn, Resolved(conn.to).model[1].inputs>>)>>
                       ELSE <<>>
       IN source \o target \o ExpectedPortErrors(Tail(conns))

\* the port errors inside the InvalidConnections errors a phase returned
PortErrorsOf(result) ==
  LET invalid == ErrorsOf(result, "InvalidConnections")
  IN IF invalid = <<>> THEN <<>>
     ELSE SelectSeq(invalid[1].list,
                    LAMBDA e : e.kind \in {"InvalidInputPort", "InvalidOutputPort"})

PortsChecked(result) ==
  /\ Len(ErrorsOf(result, "InvalidConnections")) <= 1
  /\ PortErrorsOf(result) = ExpectedPortErrors(validator.model.connections)
  /\ result = Ok => ExpectedPortErrors(validator.model.connections) = <<>>

\* C29: in late and final validation, for every connection whose source or target
\* instance has a resolved signature, a source port absent from the signature's
\* outputs yields InvalidOutputPort and a target port absent from its inputs
\* yields InvalidInputPort, each with the signature's available ports; all are
\* collected in connection order within one InvalidConnections error, and
\* validation passes only when there is none.
C29_InvalidPortsCollected ==
  /\ validator.late # NotRun => PortsChecked(validator.late)
  /\ validator.final # NotRun => PortsChecked(validator.final)

\* the schematic of test_invalid_ports: late validation has returned the invalid
\* input port of the first connection, then the invalid output port of the second
C29_Witness ==
  LET first == ConnectionDefinition(Target(SCHEMATIC_INPUT, "input"),
                                    Target("logger", "bogus"), NoValue)
      second == ConnectionDefinition(Target("logger", "bogus"),
                                     Target(SCHEMATIC_OUTPUT, "output"), NoValue)
  IN /\ validator.model.connections = <<first, second>>
     /\ validator.late =
          Err(PostInitError("Test",
                <<ValidationError("InvalidConnections",
                    <<ValidationError("InvalidInputPort", <<first.to, first, <<"input">>>>),
                      ValidationError("InvalidOutputPort",
                                      <<second.from, second, <<"output">>>>)>>)>>))

\* the input ports of the nodes other than <input>: those of the schematic output
\* that connections lead to, and those of the signatures of the declared instances
CheckedInputPorts ==
  Range(get_schematic_outputs(validator.model))
  \cup UNION { LET sig == get_component_model(validator.model, c.def.id)
               IN IF sig = <<>> THEN {}
                  ELSE {Target(c.reference, name) : name \in Range(sig[1].inputs)} :
               c \in Range(validator.model.components) }

EdgesInto(port) ==
  SelectSeq(validator.model.connections, LAMBDA c : c.to = port)

\* C30: validation fails for every schematic in which some input port of a node
\* other than <input> is the destination of no edge, or of more than one, and has
\* no default: a schematic that passes every phase has exactly one edge or a
\* default on every such port.
C30_OneEdgeOrDefault ==
  (validator.early = Ok /\ validator.late = Ok /\ validator.final = Ok) =>
    \A port \in CheckedInputPorts :
      \/ Len(EdgesInto(port)) = 1
      \/ \E i \in 1..Len(EdgesInto(port)) : has_default(EdgesInto(port)[i])

\* C32: once the Done event of the transaction has been dispatched, no further
\* packet is sent on its response stream, neither before finish nor after it.
C32_DoneIsLast == [][finished => response' = response]_vars

\* the stall check has run between the dispatch of Done and finish
C32_Witness ==
  /\ finished /\ output
  /\ channel # <<>> /\ Head(channel).type = "Done"
  /\ txState = "OutputComplete"
  /\ response # <<>>

\* C33: a done terminates the port: no packet enqueued on a port after its done
\* marker is delivered from it, also while earlier packets are still queued
\* (status DoneOpen).  On the component's port `a`: every packet of the response
\* that came over the port was emitted before the component's done.
C33_DoneTerminatesPort ==
  \A k \in 1..Len(response) :
    response[k].port = "a" =>
      \E j \in 1..Len(streams.comp) :
        /\ ~is_done(streams.comp[j])
        /\ streams.comp[j] # NoPacket
        /\ response[k].val = streams.comp[j].val

\* C34: in every reachable state a DoneClosed port has an empty queue and a
\* DoneOpen port a non-empty one, so the emptiness test of done() never
\* disagrees with its DoneClosed test.
C34_StatusAgreesWithQueue ==
  /\ \A p \in AllPorts :
       /\ ports[p].status = "DoneClosed" => is_empty(ports[p])
       /\ ports[p].status = "DoneOpen" => ~is_empty(ports[p])
  /\ done(ports) <=> \A p \in InputPorts(output_handler) : ports[p].status = "DoneClosed"

\* one port of the schematic output has closed, the other holds packets after
\* its done
C34_Witness ==
  /\ ports[PortRef(SCHEMATIC_OUTPUT_INDEX, "In", "b")].status = "DoneClosed"
  /\ ports[PortRef(SCHEMATIC_OUTPUT_INDEX, "In", "a")].status = "DoneOpen"

\* C37: validate_early_errors terminates on every finite schematic, also when the
\* connections form a cycle among instances: the call always returns.
C37_EarlyValidationReturns == validator.early # Err(StackOverflow)

\* the entries of the error of one kind in what a phase returned
EntriesOf(result, kind) ==
  UNION { Range(e.list) : e \in Range(ErrorsOf(result, kind)) }

\* C38: final validation is at least as strict as late validation: on the same
\* schematic model every error late validation reports is reported by final
\* validation, so a model that passes final validation passes late validation.
C38_FinalAtLeastAsStrict ==
  (validator.late # NotRun /\ validator.final # NotRun) =>
    /\ validator.final = Ok => validator.late = Ok
    /\ \A kind \in {"MissingComponentModels", "InvalidConnections"} :
         /\ EntriesOf(validator.late, kind) \subseteq EntriesOf(validator.final, kind)
         /\ Len(ErrorsOf(validator.late, kind)) <= Len(ErrorsOf(validator.final, kind))

\* both phases have turned the model down, final validation for more
C38_Witness ==
  /\ EntriesOf(validator.late, "InvalidConnections") # {}
  /\ EntriesOf(validator.late, "InvalidConnections")
       # EntriesOf(validator.final, "InvalidConnections")
  /\ validator.final # NotRun

\* the caller's stream has delivered an Err item
StreamFailed ==
  streams.caller # <<>> /\ streams.caller[Len(streams.caller)] = ErrItem

DataEvents(ch, port) == Len(SelectSeq(ch, LAMBDA e : e = DataEvent(port)))

\* C35: the input-priming task ends at the first Err item of the caller's stream:
\* nothing that follows the item is read, enqueued on a port of the schematic
\* input or announced by a Data event, so a port whose done had not come before
\* the item is never closed.
C35_PrimingEndsAtErr ==
  [][ StreamFailed =>
        /\ primer = "ended" /\ primer' = "ended"
        /\ callerSent' = callerSent
        /\ streams'.caller = streams.caller
        /\ \A p \in InputPorts(InputNode) :
             /\ \E k \in 0..1 :
                  ports'[p].queue = SubSeq(ports[p].queue, k + 1, Len(ports[p].queue))
             /\ ports[p].status = "Open" => ports'[p].status = "Open"
             /\ DataEvents(channel', p) <= DataEvents(channel, p) ]_vars

\* the stream failed before its packet and its done were read: everything has
\* been handled, the stall check has run, and the input port is still open
C35_Witness ==
  /\ StreamFailed
  /\ callerSent < MaxIn
  /\ ports[PortRef(InputNode, "In", "input")].status = "Open"
  /\ channel = <<>>
  /\ txState = "OutputPending"

DoneEvents(ch) == Len(SelectSeq(ch, LAMBDA e : e = DoneEvent))

\* the step hands packets of the schematic output to emit_output_message
SendsOutput ==
  /\ channel # <<>>
  /\ Head(channel).type = "Data"
  /\ Head(channel).port.node = SCHEMATIC_OUTPUT_INDEX
  /\ take_tx_output(ports) # <<>>
  /\ ports' = take_packets(ports, output_handler)

\* C36: when a send on the caller's response channel fails inside
\* emit_output_message, the call returns ChannelSend at the first failed packet:
\* none of the packets is sent and no Done is dispatched in that call, also when
\* the output node is done.
C36_FailedSendStopsCall ==
  [][ /\ (SendsOutput /\ output /\ ~receiver) => txState' = "ChannelSend"
      /\ txState' = "ChannelSend" =>
           /\ response' = response
           /\ finished' = finished
           /\ doneCount' = doneCount
           /\ DoneEvents(channel') = DoneEvents(channel) ]_vars

\* a call has failed on the last packets of the schematic output: the output
\* node is done and no Done has been dispatched
C36_Witness ==
  /\ txState = "ChannelSend"
  /\ done(ports)
  /\ ~finished /\ doneCount = 0

\* the accept calls on the port that have buffered their packet and not yet
\* dispatched its Data event
InProgress(p) ==
  Cardinality({t \in Tasks : accepts.pending[t] # <<>> /\ accepts.pending[t][1].port = p})

\* C31: accept_input and accept_output buffer the packet on the port before they
\* dispatch the Data event for it, and dispatch exactly one Data event per
\* accepted packet, done markers included: the Data events dispatched for a port
\* never outnumber the packets buffered on it, the difference being the calls in
\* progress, so the packet behind every Data event the loop receives has been
\* applied to the port buffer.
C31_BufferedBeforeDispatched ==
  \A p \in TaskPorts :
    /\ accepts.dispatched[p] <= accepts.buffered[p]
    /\ accepts.dispatched[p] + InProgress(p) = accepts.buffered[p]
    /\ DataEvents(channel, p) <= accepts.dispatched[p]

\* the component's done marker has closed its port and the Data event for it is
\* still to be dispatched: the loop has nothing to receive
C31_Witness ==
  /\ accepts.pending[CompNode] # <<>>
  /\ is_done(accepts.pending[CompNode][1].pkt)
  /\ ports[PortRef(CompNode, "Out", "a")].status = "DoneClosed"
  /\ channel = <<>>
  /\ accepts.buffered[PortRef(CompNode, "Out", "a")] = 2

\* the packets of the served request: the data packets and the done packets
DataOf(packets) == SelectSeq(packets, LAMBDA p : ~is_done(p))
DonesOf(packets) == SelectSeq(packets, LAMBDA p : is_done(p))

\* C39: for every matched REST request the handler appends after the data packets
\* exactly one done packet per distinct port name among them, also when the same
\* port name occurs in packets that are not adjacent.
C39_OneDonePerPort ==
  rest.result = "invoked" =>
    /\ rest.packets = DataOf(rest.packets) \o DonesOf(rest.packets)
    /\ DataOf(rest.packets) = data_packets(rest.request)
    /\ \A name \in {p.port : p \in Range(rest.packets)} :
         Len(SelectSeq(DonesOf(rest.packets), LAMBDA p : p.port = name)) = 1

\* C40: wait_for_done eventually returns after every call of run, when the
\* command succeeds and also when run returns an error: once run has returned, a
\* wait_for_done that is waiting can return.
C40_WaitForDoneReturns ==
  (cli.pc = "returned" /\ cli.waiter = "waiting") => cli.chan \in {"sent", "closed"}

====
